---- MODULE Spec2Model ----
(***************************************************************************)
(* Model of the world core of the open-world game: the seeded random       *)
(* stream, the gradient noise field, the biome classifier, chunk           *)
(* generation, the chunk cache, harvesting with its respawn timers, the    *)
(* spatial queries and walkability.                                        *)
(*                                                                         *)
(* Numbers.  The program computes in IEEE doubles.  Here                   *)
(*   - the random stream is exact: its state is the integer the program    *)
(*     holds, and a draw next() = state / m is represented by that state;  *)
(*     floor(next() * n) and next() < k/1000 are computed exactly from it  *)
(*     (m is prime, so no such product is ever an integer and the double   *)
(*     rounding cannot change the floor or the comparison);                *)
(*   - noise values, gradients and interpolation weights are fixed-point   *)
(*     integers in units of 1/FP;                                          *)
(*   - pixel coordinates are integers (a double position is represented by *)
(*     its floor).                                                         *)
(* TLC integers are 32 bits wide, so 31-bit products are split.            *)
(***************************************************************************)
EXTENDS Integers, Sequences, FiniteSets, TLC

\* ------------------------------------------------------------------------
\* CONFIG
\* ------------------------------------------------------------------------
TILE_SIZE == 32
CHUNK_SIZE == 16
TREE_DENSITY == 80            \* 0.08, in thousandths
ROCK_DENSITY == 30            \* 0.03
FLOWER_DENSITY == 50          \* 0.05
BUILDING_DENSITY == 2         \* 0.002
MUSHROOM_DENSITY == 20        \* the literal 0.02 of generateChunk
BUSH_DENSITY == 15            \* the literal 0.015 of generateChunk
CACTUS_DENSITY == 20          \* the literal 0.02 of generateChunk
NPC_COUNT == 20
ANIMAL_COUNT == 30
RESPAWN_DELAY == 30000        \* milliseconds, the setTimeout delay

\* Fixed-point unit of noise values and weights.
FP == 100 * 100

\* ------------------------------------------------------------------------
\* SeededRandom
\* ------------------------------------------------------------------------
RngM == 2147483647
RngA == 16807

\* (RngA * s) mod RngM for 0 <= s < RngM without leaving 32 bits (Schrage).
MulMod(s) ==
    LET q == RngM \div RngA
        r == RngM % RngA
        t == RngA * (s % q) - r * (s \div q)
    IN IF t < 0 THEN t + RngM ELSE t

\* this.state = (this.a * this.state) % this.m; JavaScript's % keeps the sign
\* of the dividend, so a negative state stays negative.
NextState(s) == IF s >= 0 THEN MulMod(s % RngM) ELSE -MulMod((-s) % RngM)

\* floor(s * n / RngM) for 0 <= s < RngM and 1 <= n < 2^15.
FloorMulPos(s, n) ==
    LET s1 == s \div 65536
        s0 == s % 65536
        A == s1 * n
        B == s0 * n
        a1 == A \div 32768
        C == (A % 32768) * 65536
        carry == C > RngM - B
        L == IF carry THEN C - (RngM - B) - 1 ELSE C + B
        H == IF carry THEN a1 + 1 ELSE a1
    IN IF L >= RngM - H THEN H + 1 ELSE H

\* Math.floor(next() * n) where next() = s / m (s the state after the draw).
FloorMul(s, n) == IF s >= 0 THEN FloorMulPos(s, n) ELSE -FloorMulPos(-s, n) - 1

\* next() < k / 1000
DrawBelow(s, k) == FloorMul(s, 1000) < k

\* next() > k / 10
DrawAbove10(s, k) == FloorMul(s, 10) >= k

\* nextInt(min, max) given the state s after its draw
NextIntOf(s, min, max) == FloorMul(s, max - min + 1) + min

\* ------------------------------------------------------------------------
\* SimplexNoise
\* ------------------------------------------------------------------------
\* One step of the Fisher-Yates loop of buildPermutation (index i).
ShuffleStep(acc, i) ==
    LET s2 == NextState(acc.st)
        j == FloorMul(s2, i + 1)
    IN [perm |-> [acc.perm EXCEPT ![i] = acc.perm[j], ![j] = acc.perm[i]],
        st |-> s2]

\* The loop  for (i = hi; i >= lo; i--)  split in halves; the first half is
\* evaluated before the second one starts.
RECURSIVE ShuffleRange(_, _, _)
ShuffleRange(acc, hi, lo) ==
    IF hi < lo THEN acc
    ELSE IF hi = lo THEN ShuffleStep(acc, hi)
    ELSE LET mid == (hi + lo) \div 2
             r == ShuffleRange(acc, hi, mid + 1)
         IN IF r.st = r.st THEN ShuffleRange(r, mid, lo) ELSE r

buildPermutation(seed) ==
    ShuffleRange([perm |-> [i \in 0..255 |-> i], st |-> seed], 255, 1)

\* sin and cos of a * pi / 2 for a quarter-turn fraction 0 <= t < FP (t in
\* units of 1/FP of a quarter turn), by their Taylor polynomials.
HALF_PI == 15708
QuarterSin(t) ==
    LET x == (t * HALF_PI) \div FP
        x2 == (x * x) \div FP
        h1 == FP - x2 \div 72
        h2 == FP - ((x2 * h1) \div FP) \div 42
        h3 == FP - ((x2 * h2) \div FP) \div 20
        h4 == FP - ((x2 * h3) \div FP) \div 6
    IN (x * h4) \div FP
QuarterCos(t) ==
    LET x == (t * HALF_PI) \div FP
        x2 == (x * x) \div FP
        g1 == FP - x2 \div 56
        g2 == FP - ((x2 * g1) \div FP) \div 30
        g3 == FP - ((x2 * g2) \div FP) \div 12
    IN FP - ((x2 * g3) \div FP) \div 2

\* 4 * s mod RngM for 0 <= s < RngM
Times4Mod(s) ==
    LET dbl(x) == IF x >= RngM - x THEN x - (RngM - x) ELSE x + x
    IN dbl(dbl(s))

\* { x: Math.cos(angle), y: Math.sin(angle) } with angle = next() * 2 * pi
\* and next() = s / m, s >= 0.
Gradient(s) ==
    LET q == FloorMul(s, 4)
        t == FloorMul(Times4Mod(s), FP)
        c == QuarterCos(t)
        n == QuarterSin(t)
    IN CASE q = 0 -> <<c, n>>
         [] q = 1 -> <<-n, c>>
         [] q = 2 -> <<-c, -n>>
         [] OTHER -> <<n, -c>>

RECURSIVE GradRange(_, _, _)
GradRange(acc, lo, hi) ==
    IF hi < lo THEN acc
    ELSE IF hi = lo
         THEN LET s2 == NextState(acc.st)
              IN [grads |-> Append(acc.grads, Gradient(s2)), st |-> s2]
    ELSE LET mid == (hi + lo) \div 2
             r == GradRange(acc, lo, mid)
         IN IF r.st = r.st THEN GradRange(r, mid + 1, hi) ELSE r

\* buildGradients continues the stream buildPermutation left.
buildGradients(st) == GradRange([grads |-> <<>>, st |-> st], 0, 255)

\* new SimplexNoise(seed): the permutation (read as doubled to 512 entries)
\* and the 256 gradients (grads[i + 1] is gradients[i]).
SimplexNoise(seed) ==
    LET p == buildPermutation(seed)
    IN [perm |-> p.perm, grads |-> buildGradients(p.st).grads]

dot(g, x, y) == (g[1] * x + g[2] * y) \div FP

\* t * t * t * (t * (t * 6 - 15) + 10)
fade(t) ==
    LET a == 6 * t - 15 * FP
        b == (t * a) \div FP + 10 * FP
        c == (t * b) \div FP
        d == (t * c) \div FP
    IN (t * d) \div FP

lerp(a, b, t) == a + (t * (b - a)) \div FP

\* noise2D(x, y) at x = xn / xd, y = yn / yd (the arguments the program passes
\* are products of an integer pixel coordinate and a decimal scale, so they
\* are exact rationals here).  N is a SimplexNoise.
noise2D(N, xn, xd, yn, yd) ==
    LET perm(k) == N.perm[k % 256]
        X == (xn \div xd) % 256
        Y == (yn \div yd) % 256
        xf == ((xn % xd) * FP) \div xd
        yf == ((yn % yd) * FP) \div yd
        u == fade(xf)
        v == fade(yf)
        aa == perm(X) + Y
        ab == perm(X) + Y + 1
        ba == perm(X + 1) + Y
        bb == perm(X + 1) + Y + 1
        gradAA == N.grads[(perm(aa) % 256) + 1]
        gradBA == N.grads[(perm(ba) % 256) + 1]
        gradAB == N.grads[(perm(ab) % 256) + 1]
        gradBB == N.grads[(perm(bb) % 256) + 1]
        x1 == lerp(dot(gradAA, xf, yf), dot(gradBA, xf - FP, yf), u)
        x2 == lerp(dot(gradAB, xf, yf - FP), dot(gradBB, xf - FP, yf - FP), u)
    IN lerp(x1, x2, v)

Pow2(n) == CASE n = 0 -> 1 [] n = 1 -> 2 [] n = 2 -> 4 [] n = 3 -> 8
             [] n = 4 -> 16 [] n = 5 -> 32 [] n = 6 -> 64 [] n = 7 -> 128
             [] OTHER -> 256

\* fbm(x, y, octaves) with the default lacunarity 2 and persistence 0.5, which
\* is how every caller uses it: octave i has frequency 2^i and amplitude 2^-i,
\* and value / maxValue is the weighted sum below.
RECURSIVE fbmSum(_, _, _, _, _, _, _)
fbmSum(N, xn, xd, yn, yd, octaves, i) ==
    IF i >= octaves THEN 0
    ELSE Pow2(octaves - 1 - i) * noise2D(N, xn * Pow2(i), xd, yn * Pow2(i), yd)
         + fbmSum(N, xn, xd, yn, yd, octaves, i + 1)
\* fbm returning the accumulated octave sum, without the division by maxValue.
fbmUndivided(N, xn, xd, yn, yd, octaves) ==
    fbmSum(N, xn, xd, yn, yd, octaves, 0)
fbm(N, xn, xd, yn, yd, octaves) ==
    fbmSum(N, xn, xd, yn, yd, octaves, 0) \div (Pow2(octaves) - 1)

\* ------------------------------------------------------------------------
\* World: terrain
\* ------------------------------------------------------------------------
Biomes == {"water", "beach", "mountain", "rocky", "forest", "desert", "plains"}

\* A variant of the cascade that tests rocky before mountain.
BiomeOfRockyFirst(elevation, moisture) ==
    IF elevation < -3000 THEN "water"
    ELSE IF elevation < -2000 THEN "beach"
    ELSE IF elevation > 5000 THEN "rocky"
    ELSE IF elevation > 6000 THEN "mountain"
    ELSE IF moisture > 3000 THEN "forest"
    ELSE IF moisture < -2000 THEN "desert"
    ELSE "plains"

\* The threshold cascade of getBiome, on elevation and moisture in 1/FP.
BiomeOf(elevation, moisture) ==
    IF elevation < -3000 THEN "water"
    ELSE IF elevation < -2000 THEN "beach"
    ELSE IF elevation > 6000 THEN "mountain"
    ELSE IF elevation > 5000 THEN "rocky"
    ELSE IF moisture > 3000 THEN "forest"
    ELSE IF moisture < -2000 THEN "desert"
    ELSE "plains"

\* scale = 0.002: worldX * scale = worldX / 500, worldX * scale * 1.5 =
\* 3 * worldX / 1000.  N is this.noise, M is this.moistureNoise.
Elevation(N, worldX, worldY) == fbm(N, worldX, 500, worldY, 500, 4)
Moisture(M, worldX, worldY) == fbm(M, 3 * worldX, 1000, 3 * worldY, 1000, 3)

\* getBiome computed from the two noise fields.
BiomeAt(N, M, worldX, worldY) ==
    BiomeOf(Elevation(N, worldX, worldY), Moisture(M, worldX, worldY))

\* The switch of getTerrainColor: depth is the elevation (read for water
\* only), detail the sign-bearing noise2D(worldX * 0.1, worldY * 0.1) * 0.1.
ColorOf(biome, depth, detail) ==
    CASE biome = "water" -> IF depth < -4000 THEN "#1E3A8A" ELSE "#4169E1"
      [] biome = "beach" -> "#F4D03F"
      [] biome = "mountain" -> "#696969"
      [] biome = "rocky" -> "#808080"
      [] biome = "forest" -> IF detail > 0 THEN "#228B22" ELSE "#1B5E20"
      [] biome = "desert" -> IF detail > 0 THEN "#D2B48C" ELSE "#C4A35A"
      [] OTHER -> IF detail > 0 THEN "#90EE90" ELSE "#7CCD7C"

\* getTerrainColor computed from the two noise fields.
ColorAt(N, M, worldX, worldY) ==
    ColorOf(BiomeAt(N, M, worldX, worldY), Elevation(N, worldX, worldY),
            noise2D(N, worldX, 10, worldY, 10))

\* ------------------------------------------------------------------------
\* The part of the world the model explores
\* ------------------------------------------------------------------------
\* World seeds, and the chunk coordinates getChunk is called with.  With seed
\* 12345 chunk (14,10) holds water, plains, forest and desert tiles and two
\* inns whose footprints overlap; chunk (15,10) holds a well.
Seeds == {12345}
ChunkCoords == {<<14, 10>>, <<15, 10>>}
ChunkPixels == CHUNK_SIZE * TILE_SIZE

\* Points isWalkable is asked about: around the doors of the two inns, inside
\* and around the well, on water, and on open ground.
WalkProbes ==
    {<<7273, 5358>>, <<7273, 5338>>, <<7292, 5357>>, <<7310, 5340>>,
     <<7260, 5300>>, <<7272, 5357>>, <<7273, 5357>>, <<7285, 5405>>,
     <<7285, 5424>>, <<7285, 5425>>, <<7300, 5390>>, <<7812, 5572>>,
     <<7792, 5552>>, <<7833, 5572>>, <<7400, 5300>>, <<7180, 5130>>}

\* The points isWalkable is called with.
WalkCalls == {<<7273, 5358>>, <<7273, 5338>>, <<7300, 5390>>, <<7812, 5572>>,
              <<7180, 5130>>, <<7833, 5572>>}

TileCorners ==
    {<<c[1] * ChunkPixels + tx * TILE_SIZE, c[2] * ChunkPixels + ty * TILE_SIZE>> :
        c \in ChunkCoords, tx \in 0..(CHUNK_SIZE - 1), ty \in 0..(CHUNK_SIZE - 1)}

VARIABLES
    seed,           \* seed[w]: this.seed of world w
    noise,          \* noise[w]: this.noise
    moistureNoise,  \* moistureNoise[w]: this.moistureNoise
    terrain,        \* terrain[w][p]: getTerrainColor and getBiome at p, tabulated
    chunks,         \* chunks[w]: this.chunks, the Map in insertion order
    buildings,      \* buildings[w]: this.buildings
    npcs,           \* npcs[w]: this.npcs
    animals,        \* animals[w]: this.animals
    game,           \* the Game: running, lastTime, gameTime, the player
    idCounter,      \* the module-level idCounter of generateId
    now,            \* Date.now(), milliseconds
    timers,         \* pending setTimeout callbacks of harvestObject
    started,        \* started[w]: Game.start has spawned the NPCs of world w
    genLog,         \* history: every run of generateChunk, with what it made
    removed,        \* history: the objects harvestObject spliced out
    harvests,       \* history: the number of successful harvests
    life,           \* history of World.update: simulated time, state changes
    last            \* the last call: operation, arguments, result

vars == <<seed, noise, moistureNoise, terrain, chunks, buildings, npcs, animals,
          game, idCounter, now, timers, started, genLog, removed, harvests, life,
          last>>

Worlds == DOMAIN seed

\* The two noise fields are built by the constructor and never modified, so
\* color and biome at a point are fixed per world; terrain[w] holds them for
\* the tile corners and probe points, and any other point is computed.
TerrainTable(N, M) ==
    [p \in TileCorners \cup WalkProbes |->
        [color |-> ColorAt(N, M, p[1], p[2]), biome |-> BiomeAt(N, M, p[1], p[2])]]

getBiome(w, worldX, worldY) ==
    IF <<worldX, worldY>> \in DOMAIN terrain[w]
    THEN terrain[w][<<worldX, worldY>>].biome
    ELSE BiomeAt(noise[w], moistureNoise[w], worldX, worldY)

getTerrainColor(w, worldX, worldY) ==
    IF <<worldX, worldY>> \in DOMAIN terrain[w]
    THEN terrain[w][<<worldX, worldY>>].color
    ELSE ColorAt(noise[w], moistureNoise[w], worldX, worldY)

\* A variant of generateId that leaves the counter out of the id.
generateIdClock(counter) == <<now, 0>>

\* generateId(): `entity_${Date.now()}_${++idCounter}`, as the pair.
generateId(counter) == <<now, counter + 1>>

\* ------------------------------------------------------------------------
\* World: chunk generation
\* ------------------------------------------------------------------------
\* worldX + (chunkRng.next() - 0.5) * CONFIG.TILE_SIZE, floored, less worldX.
Jitter(s) == FloorMul(s, TILE_SIZE) - TILE_SIZE \div 2

\* The generation of one chunk threads a record a: the state of chunkRng (st),
\* chunk.objects, this.buildings and idCounter.  Each push below draws in the
\* order the object literal evaluates its fields.
pushTree(a, worldX, worldY, biome) ==
    LET s1 == NextState(a.st)
        s2 == NextState(s1)
        s3 == NextState(s2)
    IN [a EXCEPT !.st = s3, !.idCounter = @ + 1,
                 !.objects = Append(@,
                     [id |-> generateId(a.idCounter), type |-> "tree",
                      treeType |-> IF biome = "forest" THEN "pine" ELSE "oak",
                      x |-> worldX + Jitter(s1), y |-> worldY + Jitter(s2),
                      harvestable |-> TRUE, resource |-> "wood",
                      amount |-> NextIntOf(s3, 2, 4)])]

pushRock(a, worldX, worldY) ==
    LET s1 == NextState(a.st)
        s2 == NextState(s1)
        s3 == NextState(s2)
        s4 == NextState(s3)
    IN [a EXCEPT !.st = s4, !.idCounter = @ + 1,
                 !.objects = Append(@,
                     [id |-> generateId(a.idCounter), type |-> "rock",
                      x |-> worldX + Jitter(s1), y |-> worldY + Jitter(s2),
                      harvestable |-> TRUE,
                      resource |-> IF DrawAbove10(s3, 9) THEN "gem" ELSE "stone",
                      amount |-> NextIntOf(s4, 1, 3)])]

\* A flower or a mushroom: type and resource have the same name, amount 1.
pushSingle(a, type, worldX, worldY) ==
    LET s1 == NextState(a.st)
        s2 == NextState(s1)
    IN [a EXCEPT !.st = s2, !.idCounter = @ + 1,
                 !.objects = Append(@,
                     [id |-> generateId(a.idCounter), type |-> type,
                      x |-> worldX + Jitter(s1), y |-> worldY + Jitter(s2),
                      harvestable |-> TRUE, resource |-> type, amount |-> 1])]

pushBush(a, worldX, worldY) ==
    LET s1 == NextState(a.st)
        s2 == NextState(s1)
        s3 == NextState(s2)
    IN [a EXCEPT !.st = s3, !.idCounter = @ + 1,
                 !.objects = Append(@,
                     [id |-> generateId(a.idCounter), type |-> "bush",
                      x |-> worldX + Jitter(s1), y |-> worldY + Jitter(s2),
                      harvestable |-> TRUE, resource |-> "berry",
                      amount |-> NextIntOf(s3, 2, 5)])]

\* A cactus has no resource and no amount.
pushCactus(a, worldX, worldY) ==
    LET s1 == NextState(a.st)
        s2 == NextState(s1)
    IN [a EXCEPT !.st = s2, !.idCounter = @ + 1,
                 !.objects = Append(@,
                     [id |-> generateId(a.idCounter), type |-> "cactus",
                      x |-> worldX + Jitter(s1), y |-> worldY + Jitter(s2),
                      harvestable |-> FALSE])]

\* randomChoice(types, rng): types[Math.floor(rng.next() * 4)], undefined
\* when the index is outside 0..3.
BuildingTypes == <<"house", "shop", "inn", "well">>
randomChoice(array, s) ==
    LET index == FloorMul(s, Len(array))
    IN IF index >= 0 /\ index < Len(array) THEN array[index + 1] ELSE "undefined"

generateBuilding(a, x, y) ==
    LET s1 == NextState(a.st)
        type == randomChoice(BuildingTypes, s1)
        s2 == NextState(s1)
        s3 == NextState(s2)
    IN [a EXCEPT !.st = IF type = "well" THEN s1 ELSE s3, !.idCounter = @ + 1,
                 !.buildings = Append(@,
                     [id |-> generateId(a.idCounter), type |-> type,
                      x |-> x, y |-> y,
                      width |-> IF type = "well" THEN 40 ELSE NextIntOf(s2, 60, 100),
                      height |-> IF type = "well" THEN 40 ELSE NextIntOf(s3, 50, 80),
                      door |-> type # "well", interactable |-> TRUE])]

\* The object loop's body for one tile, statement by statement; (worldX,
\* worldY) is the tile's centre, a the record before the statement, roll the
\* state after the tile's first draw.  In `cond && chunkRng.next() < density`
\* the draw is made only when cond holds.
TreeStage(a, roll, worldX, worldY, biome) ==
    IF biome \in {"forest", "plains"} /\ DrawBelow(roll, TREE_DENSITY)
    THEN pushTree(a, worldX, worldY, biome) ELSE a

RockStage(a, roll, worldX, worldY, biome) ==
    IF biome \in {"rocky", "mountain"} /\ DrawBelow(roll, ROCK_DENSITY * 2)
    THEN pushRock(a, worldX, worldY) ELSE a

FlowerStage(a, roll, worldX, worldY, biome) ==
    IF biome = "plains" /\ DrawBelow(roll, FLOWER_DENSITY)
    THEN pushSingle(a, "flower", worldX, worldY) ELSE a

Drawn(a) == [a EXCEPT !.st = NextState(a.st)]

MushroomDrawn(b, worldX, worldY) ==
    IF DrawBelow(b.st, MUSHROOM_DENSITY)
    THEN pushSingle(b, "mushroom", worldX, worldY) ELSE b
\* A variant of the mushroom test without the condition on the biome.
MushroomStageAnywhere(a, worldX, worldY, biome) ==
    MushroomDrawn(Drawn(a), worldX, worldY)
MushroomStage(a, worldX, worldY, biome) ==
    IF biome = "forest" THEN MushroomDrawn(Drawn(a), worldX, worldY) ELSE a

BushDrawn(b, worldX, worldY) ==
    IF DrawBelow(b.st, BUSH_DENSITY) THEN pushBush(b, worldX, worldY) ELSE b
BushStage(a, worldX, worldY, biome) ==
    IF biome \in {"forest", "plains"} THEN BushDrawn(Drawn(a), worldX, worldY) ELSE a

CactusDrawn(b, worldX, worldY) ==
    IF DrawBelow(b.st, CACTUS_DENSITY) THEN pushCactus(b, worldX, worldY) ELSE b
CactusStage(a, worldX, worldY, biome) ==
    IF biome = "desert" THEN CactusDrawn(Drawn(a), worldX, worldY) ELSE a

BuildingDrawn(b, worldX, worldY) ==
    IF DrawBelow(b.st, BUILDING_DENSITY) THEN generateBuilding(b, worldX, worldY) ELSE b
BuildingStage(a, worldX, worldY, biome) ==
    IF biome = "plains" THEN BuildingDrawn(Drawn(a), worldX, worldY) ELSE a

TileObjects(a, roll, worldX, worldY, biome) ==
    BuildingStage(
      CactusStage(
        BushStage(
          MushroomStage(
            FlowerStage(
              RockStage(
                TreeStage([a EXCEPT !.st = roll], roll, worldX, worldY, biome),
                roll, worldX, worldY, biome),
              roll, worldX, worldY, biome),
            worldX, worldY, biome),
          worldX, worldY, biome),
        worldX, worldY, biome),
      worldX, worldY, biome)

TileStep(a, worldX, worldY, biome) ==
    IF biome \in {"water", "beach"} THEN a
    ELSE TileObjects(a, NextState(a.st), worldX, worldY, biome)

\* The object loop over tiles lo..hi in row-major order (ty outer, tx inner),
\* split in halves; the lower half is evaluated before the upper one starts.
RECURSIVE TileRange(_, _, _, _, _, _)
RECURSIVE TileRangeUpper(_, _, _, _, _, _)
TileRange(a, tiles, worldStartX, worldStartY, lo, hi) ==
    IF lo > hi THEN a
    ELSE IF lo = hi
    THEN TileStep(a, worldStartX + (lo % CHUNK_SIZE) * TILE_SIZE + TILE_SIZE \div 2,
                     worldStartY + (lo \div CHUNK_SIZE) * TILE_SIZE + TILE_SIZE \div 2,
                     tiles[lo \div CHUNK_SIZE][lo % CHUNK_SIZE].biome)
    ELSE TileRangeUpper(TileRange(a, tiles, worldStartX, worldStartY, lo, (lo + hi) \div 2),
                        tiles, worldStartX, worldStartY, (lo + hi) \div 2 + 1, hi)
TileRangeUpper(r, tiles, worldStartX, worldStartY, lo, hi) ==
    IF r.st = r.st THEN TileRange(r, tiles, worldStartX, worldStartY, lo, hi) ELSE r

\* A variant of the seed that also depends on how many chunks the world
\* holds, as a stream shared by all generations would.
ChunkSeedShared(w, chunkX, chunkY) ==
    seed[w] + chunkX * 1000 + chunkY + Len(chunks[w])

\* A variant of the seed with the multiplier 10.
ChunkSeedNarrow(w, chunkX, chunkY) == seed[w] + chunkX * 10 + chunkY

\* The seed of chunkRng.
ChunkSeed(w, chunkX, chunkY) == seed[w] + chunkX * 1000 + chunkY

\* The terrain loop of generateChunk: tiles[ty][tx].
ChunkTiles(w, chunkX, chunkY) ==
    [ty \in 0..(CHUNK_SIZE - 1) |-> [tx \in 0..(CHUNK_SIZE - 1) |->
        [color |-> getTerrainColor(w, chunkX * ChunkPixels + tx * TILE_SIZE,
                                      chunkY * ChunkPixels + ty * TILE_SIZE),
         biome |-> getBiome(w, chunkX * ChunkPixels + tx * TILE_SIZE,
                               chunkY * ChunkPixels + ty * TILE_SIZE)]]]

\* The chunk with its objects, and this.buildings and idCounter as the object
\* loop leaves them (its final record a).
ChunkMade(chunkX, chunkY, tiles, a) ==
    [chunk |-> [x |-> chunkX, y |-> chunkY, tiles |-> tiles,
                objects |-> a.objects, generated |-> TRUE],
     buildings |-> a.buildings, idCounter |-> a.idCounter]

\* A variant of the generation that numbers the ids of each chunk from 1.
generateChunkFromOne(w, chunkX, chunkY, tiles) ==
    ChunkMade(chunkX, chunkY, tiles,
              TileRange([st |-> ChunkSeed(w, chunkX, chunkY), objects |-> <<>>,
                         buildings |-> buildings[w], idCounter |-> 0],
                        tiles, chunkX * ChunkPixels, chunkY * ChunkPixels,
                        0, CHUNK_SIZE * CHUNK_SIZE - 1))

generateChunkFrom(w, chunkX, chunkY, tiles) ==
    ChunkMade(chunkX, chunkY, tiles,
              TileRange([st |-> ChunkSeed(w, chunkX, chunkY), objects |-> <<>>,
                         buildings |-> buildings[w], idCounter |-> idCounter],
                        tiles, chunkX * ChunkPixels, chunkY * ChunkPixels,
                        0, CHUNK_SIZE * CHUNK_SIZE - 1))

\* generateChunk(chunkX, chunkY) in world w.
generateChunk(w, chunkX, chunkY) ==
    generateChunkFrom(w, chunkX, chunkY, ChunkTiles(w, chunkX, chunkY))

\* ------------------------------------------------------------------------
\* World: the chunk cache
\* ------------------------------------------------------------------------
\* this.chunks is a Map: a sequence of entries in insertion order.
getChunkKey(chunkX, chunkY) == <<chunkX, chunkY>>
MapHas(m, key) == \E i \in 1..Len(m) : m[i].key = key
MapGet(m, key) == m[CHOOSE i \in 1..Len(m) : m[i].key = key].chunk
MapSet(m, key, chunk) ==
    IF MapHas(m, key)
    THEN [i \in 1..Len(m) |-> IF m[i].key = key THEN [key |-> key, chunk |-> chunk] ELSE m[i]]
    ELSE Append(m, [key |-> key, chunk |-> chunk])

\* getChunk(chunkX, chunkY): generate on a miss, then return the stored chunk.
\* g is what generateChunk gives; it is run only on a miss.
GetChunkWith(w, key, miss, g) ==
    /\ started[w]
    /\ IF miss
       THEN /\ chunks' = [chunks EXCEPT ![w] = MapSet(@, key, g.chunk)]
            /\ buildings' = [buildings EXCEPT ![w] = g.buildings]
            /\ idCounter' = g.idCounter
            /\ genLog' = [genLog EXCEPT ![w] = Append(@,
                  [key |-> key, objects |-> g.chunk.objects,
                   buildings |-> SubSeq(g.buildings, Len(buildings[w]) + 1,
                                        Len(g.buildings))])]
       ELSE UNCHANGED <<chunks, buildings, idCounter, genLog>>
    /\ last' = [op |-> "getChunk", w |-> w, key |-> key, generated |-> miss]
    /\ UNCHANGED <<animals, game, life, seed, noise, moistureNoise, terrain, npcs, now, timers,
                   started, removed, harvests>>

\* A variant of getChunk without the test of this.chunks.has(key).
GetChunkAlways(w, chunkX, chunkY) ==
    GetChunkWith(w, getChunkKey(chunkX, chunkY), TRUE, generateChunk(w, chunkX, chunkY))

GetChunk(w, chunkX, chunkY) ==
    GetChunkWith(w, getChunkKey(chunkX, chunkY),
                 ~MapHas(chunks[w], getChunkKey(chunkX, chunkY)),
                 generateChunk(w, chunkX, chunkY))

\* ------------------------------------------------------------------------
\* Construction
\* ------------------------------------------------------------------------
\* new World(seed) for every world of ws, nothing generated yet; idCounter is
\* 0 when the module is loaded.  spawned says whether the worlds are used
\* without Game.start, so that no NPC is ever spawned in them; call is the
\* record of the latest call.
\* The player's position at Game.start: the centre of the world.
PlayerStart == <<32000, 32000>>

\* The Game as its constructor leaves it: not running, at 6:00 (gameTime is
\* held in hundred-thousandths of an hour, lastTime in milliseconds), with
\* the counts of the update and render calls made so far.
NewGame == [running |-> FALSE, lastTime |-> 0, gameTime |-> 6 * 100000,
            updates |-> 0, renders |-> 0]
\* No World.update yet: no simulated time, no NPC has changed state, the
\* player has not been within 100 pixels of an NPC, and has not moved from
\* the start.
NoLife == [elapsed |-> 0, changed |-> FALSE, near |-> FALSE,
           player |-> PlayerStart, moves |-> 0]

\* Everything but the NPCs, the animals and idCounter, for worlds of the
\* given seeds.
InitGame(ws, seeds, spawned, call) ==
    /\ seed \in [ws -> seeds]
    /\ noise = [w \in ws |-> SimplexNoise(seed[w])]
    /\ moistureNoise = [w \in ws |-> SimplexNoise(seed[w] + 2)]
    /\ terrain = [w \in ws |-> TerrainTable(noise[w], moistureNoise[w])]
    /\ chunks = [w \in ws |-> <<>>]
    /\ buildings = [w \in ws |-> <<>>]
    /\ game = NewGame
    /\ now = 0
    /\ timers = <<>>
    /\ started = [w \in ws |-> spawned]
    /\ genLog = [w \in ws |-> <<>>]
    /\ removed = {}
    /\ harvests = 0
    /\ life = NoLife
    /\ last = call

InitWorlds(ws, spawned, call) ==
    /\ InitGame(ws, Seeds, spawned, call)
    /\ npcs = [w \in ws |-> <<>>]
    /\ animals = [w \in ws |-> <<>>]
    /\ idCounter = 0

Init == InitWorlds({1}, FALSE, [op |-> "new"])

\* ------------------------------------------------------------------------
\* World: walkability
\* ------------------------------------------------------------------------
Abs(n) == IF n < 0 THEN -n ELSE n
MinOf(S) == CHOOSE i \in S : \A j \in S : i <= j

\* A variant of the footprint test that leaves the edges out.
InFootprintStrict(b, worldX, worldY) ==
    /\ worldX > b.x
    /\ worldX < b.x + b.width
    /\ worldY > b.y
    /\ worldY < b.y + b.height

\* The footprint test of isWalkable: both edges included.
InFootprint(b, worldX, worldY) ==
    /\ worldX >= b.x
    /\ worldX <= b.x + b.width
    /\ worldY >= b.y
    /\ worldY <= b.y + b.height

\* A variant of the door test with the door on the top edge.
InDoorWindowTop(b, worldX, worldY) ==
    /\ Abs(2 * worldX - (2 * b.x + b.width)) < 40
    /\ Abs(worldY - b.y) < 20

\* Math.abs(worldX - doorX) < 20 && Math.abs(worldY - doorY) < 20 with
\* doorX = b.x + b.width / 2 and doorY = b.y + b.height; the x test is doubled
\* because the width may be odd.
InDoorWindow(b, worldX, worldY) ==
    /\ Abs(2 * worldX - (2 * b.x + b.width)) < 40
    /\ Abs(worldY - (b.y + b.height)) < 20

\* isWalkable: water is not; otherwise the first building of this.buildings
\* whose footprint holds the point decides, and the loop ends there.
isWalkable(w, worldX, worldY) ==
    IF getBiome(w, worldX, worldY) = "water" THEN FALSE
    ELSE LET hits == {i \in 1..Len(buildings[w]) :
                         InFootprint(buildings[w][i], worldX, worldY)}
         IN IF hits = {} THEN TRUE
            ELSE LET building == buildings[w][MinOf(hits)]
                 IN building.door /\ InDoorWindow(building, worldX, worldY)

IsWalkable(w, worldX, worldY) ==
    /\ started[w]
    /\ last' = [op |-> "isWalkable", w |-> w, x |-> worldX, y |-> worldY,
                ret |-> isWalkable(w, worldX, worldY)]
    /\ UNCHANGED <<animals, game, life, seed, noise, moistureNoise, terrain, chunks, buildings, npcs,
                   idCounter, now, timers, started, genLog, removed, harvests>>

\* ------------------------------------------------------------------------
\* World: spawning the NPCs (Game.start does it before any chunk exists)
\* ------------------------------------------------------------------------
NpcTypes == <<"villager", "merchant", "elder", "guard", "wanderer">>
\* 2 * Math.PI in thousandths: a direction is held in milliradians, a timer in
\* milliseconds.
TWO_PI == 6283

\* The search for a walkable position: at most 10 moves of
\* (rng.next() - 0.5) * 100 on each axis.  p is [x, y, st].
RECURSIVE FindWalkable(_, _, _)
FindWalkable(w, p, attempts) ==
    IF isWalkable(w, p.x, p.y) \/ attempts >= 10 THEN p
    ELSE LET s1 == NextState(p.st)
             s2 == NextState(s1)
         IN FindWalkable(w, [x |-> p.x + FloorMul(s1, 100) - 50,
                             y |-> p.y + FloorMul(s2, 100) - 50, st |-> s2],
                         attempts + 1)

\* npcs.push({...}) at the position p found: t1, t2 and t3 are the states
\* after the draws of type, direction and stateTimer.
pushNpc(a, p, t1, t2, t3) ==
    [st |-> t3, idCounter |-> a.idCounter + 1,
     npcs |-> Append(a.npcs,
         [id |-> generateId(a.idCounter), type |-> randomChoice(NpcTypes, t1),
          x |-> p.x, y |-> p.y, homeX |-> p.x, homeY |-> p.y,
          direction |-> FloorMul(t2, TWO_PI), state |-> "idle",
          stateTimer |-> FloorMul(t3, 5 * 1000), interactable |-> TRUE])]

SpawnAt(w, a, p) ==
    IF isWalkable(w, p.x, p.y)
    THEN pushNpc(a, p, NextState(p.st), NextState(NextState(p.st)),
                 NextState(NextState(NextState(p.st))))
    ELSE [a EXCEPT !.st = p.st]

\* The first position tried: cs is <<cos, sin>> of the angle, s2 the state
\* after the draw of the distance 200 + rng.next() * 800, held in tenths of
\* a pixel.
FirstTry(playerX, playerY, cs, s2) ==
    [x |-> playerX + (cs[1] * (2000 + FloorMul(s2, 8000))) \div (FP * 10),
     y |-> playerY + (cs[2] * (2000 + FloorMul(s2, 8000))) \div (FP * 10),
     st |-> s2]

\* One turn of the spawn loop.  a is [st, npcs, idCounter].
SpawnOne(w, a, playerX, playerY) ==
    SpawnAt(w, a, FindWalkable(w, FirstTry(playerX, playerY,
                                           Gradient(NextState(a.st)),
                                           NextState(NextState(a.st))), 0))

RECURSIVE SpawnLoop(_, _, _, _, _)
RECURSIVE SpawnLoopRest(_, _, _, _, _)
SpawnLoop(w, a, playerX, playerY, i) ==
    IF i >= NPC_COUNT THEN a
    ELSE SpawnLoopRest(w, SpawnOne(w, a, playerX, playerY), playerX, playerY, i + 1)
SpawnLoopRest(w, r, playerX, playerY, i) ==
    IF r.st = r.st THEN SpawnLoop(w, r, playerX, playerY, i) ELSE r

\* spawnNPCs(playerX, playerY), with its own stream seeded seed + 999.
spawnNPCs(w, playerX, playerY) ==
    SpawnLoop(w, [st |-> seed[w] + 999, npcs |-> npcs[w], idCounter |-> idCounter],
              playerX, playerY, 0)

\* The animal definitions of spawnAnimals.
AnimalTypes ==
    <<[type |-> "rabbit", biomes |-> {"plains", "forest"}, speed |-> 80],
      [type |-> "deer", biomes |-> {"forest", "plains"}, speed |-> 120],
      [type |-> "bird", biomes |-> {"plains", "forest", "beach"}, speed |-> 60],
      [type |-> "fish", biomes |-> {"water"}, speed |-> 40]>>

\* animals.push({...}) at <<x, y>>: t1 and t2 are the states after the draws
\* of direction and stateTimer (up to 3 seconds).
pushAnimal(a, animalDef, x, y, t1, t2) ==
    [st |-> t2, idCounter |-> a.idCounter + 1,
     animals |-> Append(a.animals,
         [id |-> generateId(a.idCounter), type |-> animalDef.type, x |-> x, y |-> y,
          speed |-> animalDef.speed, direction |-> FloorMul(t1, TWO_PI),
          state |-> "idle", stateTimer |-> FloorMul(t2, 3 * 1000)])]

\* One turn of the loop of spawnAnimals.  a is [st, animals, idCounter]; s1,
\* s3 are the states after the draws of the definition and of the distance
\* 100 + rng.next() * 600, p the position (with st = s3).
AnimalAt(w, a, animalDef, p) ==
    IF getBiome(w, p.x, p.y) \in animalDef.biomes
    THEN pushAnimal(a, animalDef, p.x, p.y, NextState(p.st), NextState(NextState(p.st)))
    ELSE [a EXCEPT !.st = p.st]

AnimalTry(playerX, playerY, cs, s3) ==
    [x |-> playerX + (cs[1] * (1000 + FloorMul(s3, 6000))) \div (FP * 10),
     y |-> playerY + (cs[2] * (1000 + FloorMul(s3, 6000))) \div (FP * 10),
     st |-> s3]

SpawnAnimal(w, a, playerX, playerY) ==
    AnimalAt(w, a, randomChoice(AnimalTypes, NextState(a.st)),
             AnimalTry(playerX, playerY, Gradient(NextState(NextState(a.st))),
                       NextState(NextState(NextState(a.st)))))

RECURSIVE AnimalLoop(_, _, _, _, _)
RECURSIVE AnimalLoopRest(_, _, _, _, _)
AnimalLoop(w, a, playerX, playerY, i) ==
    IF i >= ANIMAL_COUNT THEN a
    ELSE AnimalLoopRest(w, SpawnAnimal(w, a, playerX, playerY), playerX, playerY, i + 1)
AnimalLoopRest(w, r, playerX, playerY, i) ==
    IF r.st = r.st THEN AnimalLoop(w, r, playerX, playerY, i) ELSE r

\* spawnAnimals(playerX, playerY), with its own stream seeded seed + 888;
\* counter is idCounter as the call finds it.
spawnAnimals(w, counter, playerX, playerY) ==
    AnimalLoop(w, [st |-> seed[w] + 888, animals |-> animals[w], idCounter |-> counter],
               playerX, playerY, 0)

\* Game.start: the NPCs and then the animals are spawned around the player's
\* start before the first getChunk, and the game loop is set going.
StartWith(w, a, b) ==
    /\ ~started[w]
    /\ npcs' = [npcs EXCEPT ![w] = a.npcs]
    /\ animals' = [animals EXCEPT ![w] = b.animals]
    /\ idCounter' = b.idCounter
    /\ started' = [started EXCEPT ![w] = TRUE]
    /\ game' = [game EXCEPT !.running = TRUE, !.lastTime = now]
    /\ last' = [op |-> "start", w |-> w]
    /\ UNCHANGED <<life, seed, noise, moistureNoise, terrain, chunks, buildings,
                   now, timers, genLog, removed, harvests>>

StartAnimals(w, a) ==
    StartWith(w, a, spawnAnimals(w, a.idCounter, PlayerStart[1], PlayerStart[2]))

Start(w) == StartAnimals(w, spawnNPCs(w, PlayerStart[1], PlayerStart[2]))

\* ------------------------------------------------------------------------
\* World: harvesting
\* ------------------------------------------------------------------------
MaxHarvests == 2
MaxTicks == 1
ClockStep == RESPAWN_DELAY

\* objects.findIndex(o => o.id === objectId), 0 for -1.
findIndex(objects, objectId) ==
    IF \E k \in 1..Len(objects) : objects[k].id = objectId
    THEN MinOf({k \in 1..Len(objects) : objects[k].id = objectId})
    ELSE 0

\* A variant of splice that removes nothing.
spliceNone(objects, objIndex) == objects

\* objects.splice(objIndex, 1)
splice(objects, objIndex) ==
    SubSeq(objects, 1, objIndex - 1) \o SubSeq(objects, objIndex + 1, Len(objects))

\* The chunks, in Map order, where the loop of harvestObject finds the id on
\* a harvestable object; it acts on the first and returns.
IsHarvestHit(objects, objIndex) == objIndex # 0 /\ objects[objIndex].harvestable
HarvestHits(w, objectId) ==
    {i \in 1..Len(chunks[w]) :
        IsHarvestHit(chunks[w][i].chunk.objects,
                     findIndex(chunks[w][i].chunk.objects, objectId))}

\* The not-found value of harvestObject.
Null == [null |-> TRUE]

\* A variant of the harvest that leaves a renewable object harvestable.
HarvestHitKeepsFlag(w, objectId, i, objIndex, obj) ==
    IF obj.type = "tree" \/ obj.type = "rock"
    THEN [ret |-> [resource |-> obj.resource, amount |-> obj.amount],
          chunks |-> [chunks[w] EXCEPT ![i].chunk.objects = splice(@, objIndex)],
          timers |-> timers, spliced |-> {<<w, objectId>>}]
    ELSE [ret |-> [resource |-> obj.resource, amount |-> obj.amount],
          chunks |-> chunks[w],
          timers |-> Append(timers, [w |-> w, id |-> objectId,
                                     due |-> now + RESPAWN_DELAY]),
          spliced |-> {}]

\* A variant of the harvest that always reports an amount of 1.
HarvestHitUnit(w, objectId, i, objIndex, obj) ==
    IF obj.type = "tree" \/ obj.type = "rock"
    THEN [ret |-> [resource |-> obj.resource, amount |-> 1],
          chunks |-> [chunks[w] EXCEPT ![i].chunk.objects = splice(@, objIndex)],
          timers |-> timers, spliced |-> {<<w, objectId>>}]
    ELSE [ret |-> [resource |-> obj.resource, amount |-> 1],
          chunks |-> [chunks[w] EXCEPT ![i].chunk.objects[objIndex].harvestable = FALSE],
          timers |-> Append(timers, [w |-> w, id |-> objectId,
                                     due |-> now + RESPAWN_DELAY]),
          spliced |-> {}]

\* The body of `if (obj.harvestable)` for the object obj at objIndex in the
\* i-th chunk: what harvestObject returns, the chunks and timers it leaves,
\* and the object it spliced out, if any.
HarvestHit(w, objectId, i, objIndex, obj) ==
    IF obj.type = "tree" \/ obj.type = "rock"
    THEN [ret |-> [resource |-> obj.resource, amount |-> obj.amount],
          chunks |-> [chunks[w] EXCEPT ![i].chunk.objects = splice(@, objIndex)],
          timers |-> timers, spliced |-> {<<w, objectId>>}]
    ELSE [ret |-> [resource |-> obj.resource, amount |-> obj.amount],
          chunks |-> [chunks[w] EXCEPT ![i].chunk.objects[objIndex].harvestable = FALSE],
          timers |-> Append(timers, [w |-> w, id |-> objectId,
                                     due |-> now + RESPAWN_DELAY]),
          spliced |-> {}]

HarvestAt(w, objectId, i, objIndex) ==
    HarvestHit(w, objectId, i, objIndex, chunks[w][i].chunk.objects[objIndex])

HarvestIn(w, objectId, i) ==
    HarvestAt(w, objectId, i, findIndex(chunks[w][i].chunk.objects, objectId))

\* harvestObject(objectId)
harvestObject(w, objectId) ==
    IF HarvestHits(w, objectId) = {}
    THEN [ret |-> Null, chunks |-> chunks[w], timers |-> timers, spliced |-> {}]
    ELSE HarvestIn(w, objectId, MinOf(HarvestHits(w, objectId)))

\* The ids harvestObject is called with: of each type, the first object the
\* world generated (whether or not it is still there), and an id no object
\* ever had.
RECURSIVE Generated(_, _)
Generated(log, g) ==
    IF g > Len(log) THEN <<>> ELSE log[g].objects \o Generated(log, g + 1)
FirstOfType(objects, type) ==
    IF \E k \in 1..Len(objects) : objects[k].type = type
    THEN {objects[MinOf({k \in 1..Len(objects) : objects[k].type = type})].id}
    ELSE {}
ObjectTypes == {"tree", "rock", "flower", "mushroom", "bush", "cactus"}
NoSuchId == <<0, 0>>
HarvestIdsOf(objects) ==
    {NoSuchId} \cup UNION {FirstOfType(objects, type) : type \in ObjectTypes}
HarvestIds(w) == HarvestIdsOf(Generated(genLog[w], 1))

HarvestObjectWith(w, objectId, h) ==
    /\ started[w]
    /\ h.ret # Null => harvests < MaxHarvests
    /\ chunks' = [chunks EXCEPT ![w] = h.chunks]
    /\ timers' = h.timers
    /\ removed' = removed \cup h.spliced
    /\ harvests' = IF h.ret = Null THEN harvests ELSE harvests + 1
    /\ last' = [op |-> "harvestObject", w |-> w, id |-> objectId, ret |-> h.ret]
    /\ UNCHANGED <<animals, game, life, seed, noise, moistureNoise, terrain, buildings, npcs,
                   idCounter, now, started, genLog>>

HarvestObject(w, objectId) == HarvestObjectWith(w, objectId, harvestObject(w, objectId))

\* The callback of setTimeout: obj.harvestable = true on the object the
\* closure holds.  Callbacks with the same delay run in the order they were
\* scheduled, and none before it is due.
\* A variant of the callback that makes harvestable every renewable object
\* that is not.
SetHarvestableAll(m, objectId) ==
    [i \in 1..Len(m) |->
        [m[i] EXCEPT !.chunk.objects =
            [k \in 1..Len(@) |-> IF @[k].type \in {"flower", "mushroom", "bush"}
                                 THEN [@[k] EXCEPT !.harvestable = TRUE] ELSE @[k]]]]

SetHarvestable(m, objectId) ==
    [i \in 1..Len(m) |->
        [m[i] EXCEPT !.chunk.objects =
            [k \in 1..Len(@) |-> IF @[k].id = objectId
                                 THEN [@[k] EXCEPT !.harvestable = TRUE] ELSE @[k]]]]

RespawnFire ==
    /\ timers # <<>>
    /\ Head(timers).due <= now
    /\ chunks' = [chunks EXCEPT ![Head(timers).w] = SetHarvestable(@, Head(timers).id)]
    /\ timers' = Tail(timers)
    /\ last' = [op |-> "respawn", w |-> Head(timers).w, id |-> Head(timers).id,
                due |-> Head(timers).due]
    /\ UNCHANGED <<animals, game, life, seed, noise, moistureNoise, terrain, buildings, npcs, idCounter,
                   now, started, genLog, removed, harvests>>

\* Time passes.
AdvanceClock ==
    /\ now < MaxTicks * ClockStep
    /\ now' = now + ClockStep
    /\ last' = [op |-> "tick"]
    /\ UNCHANGED <<animals, game, life, seed, noise, moistureNoise, terrain, chunks, buildings, npcs,
                   idCounter, timers, started, genLog, removed, harvests>>

\* ------------------------------------------------------------------------
\* World: spatial queries
\* ------------------------------------------------------------------------
\* A distance d = Math.hypot(dx, dy) is held as (2d)^2, computed from the
\* doubled differences (a building's centre may lie on a half pixel);
\* d <= radius is (2d)^2 <= (2 radius)^2, and ordering by d is ordering by
\* (2d)^2.
hypot(dx2, dy2) == dx2 * dx2 + dy2 * dy2
WithinRadius(distance, radius) == distance <= 4 * radius * radius

\* array.sort((a, b) => a.distance - b.distance): ascending and stable, by
\* insertion of each entry after the entries not farther than it.
SortInsert(sorted, e) ==
    LET n == Cardinality({k \in 1..Len(sorted) : sorted[k].distance <= e.distance})
    IN SubSeq(sorted, 1, n) \o <<e>> \o SubSeq(sorted, n + 1, Len(sorted))
RECURSIVE SortFrom(_, _, _)
SortFrom(array, sorted, k) ==
    IF k > Len(array) THEN sorted
    ELSE SortFrom(array, SortInsert(sorted, array[k]), k + 1)
\* A variant of the sort that leaves the array in the order it was gathered.
sortNone(array) == array
sortByDistance(array) == SortFrom(array, <<>>, 1)

\* The objects of one chunk within the radius, each with its distance.
ChunkObjectsNear(objects, x, y, radius) ==
    LET withDistance == [k \in 1..Len(objects) |->
            [obj |-> objects[k],
             distance |-> hypot(2 * (objects[k].x - x), 2 * (objects[k].y - y))]]
        near(e) == WithinRadius(e.distance, radius)
    IN SelectSeq(withDistance, near)

\* The 3 x 3 block of chunk coordinates around the query point, cx outer and
\* cy inner; n is 0..8.
BlockCoord(chunkX, chunkY, n) == <<chunkX - 1 + (n \div 3), chunkY - 1 + (n % 3)>>

RECURSIVE GatherObjects(_, _, _, _, _)
GatherObjects(w, x, y, radius, n) ==
    IF n > 8 THEN <<>>
    ELSE LET c == BlockCoord(x \div ChunkPixels, y \div ChunkPixels, n)
             key == getChunkKey(c[1], c[2])
         IN (IF MapHas(chunks[w], key)
             THEN ChunkObjectsNear(MapGet(chunks[w], key).objects, x, y, radius)
             ELSE <<>>) \o GatherObjects(w, x, y, radius, n + 1)

getObjectsNear(w, x, y, radius) == sortByDistance(GatherObjects(w, x, y, radius, 0))

getNPCsNear(w, x, y, radius) ==
    LET withDistance == [k \in 1..Len(npcs[w]) |->
            [obj |-> npcs[w][k],
             distance |-> hypot(2 * (npcs[w][k].x - x), 2 * (npcs[w][k].y - y))]]
        near(e) == WithinRadius(e.distance, radius)
    IN sortByDistance(SelectSeq(withDistance, near))

getBuildingsNear(w, x, y, radius) ==
    LET withDistance == [k \in 1..Len(buildings[w]) |->
            [obj |-> buildings[w][k],
             distance |-> hypot(2 * buildings[w][k].x + buildings[w][k].width - 2 * x,
                                2 * buildings[w][k].y + buildings[w][k].height - 2 * y)]]
        near(e) == WithinRadius(e.distance, radius)
    IN sortByDistance(SelectSeq(withDistance, near))

\* Query points and radii.
ObjectQueries == {<<7640, 5150, 60>>, <<7700, 5400, 200>>}
NpcQueries == {<<31700, 32100, 700>>}
BuildingQueries == {<<7290, 5340, 40>>, <<7500, 5400, 400>>}

\* A variant of the queries that goes through getChunk for the chunk of the
\* query point, generating it when it is missing.
QueryGenerating(w, op, q) ==
    /\ started[w]
    /\ last' = [op |-> op, w |-> w, x |-> q[1], y |-> q[2], radius |-> q[3],
                ret |-> CASE op = "getObjectsNear" -> getObjectsNear(w, q[1], q[2], q[3])
                          [] op = "getNPCsNear" -> getNPCsNear(w, q[1], q[2], q[3])
                          [] OTHER -> getBuildingsNear(w, q[1], q[2], q[3])]
    /\ IF MapHas(chunks[w], getChunkKey(q[1] \div ChunkPixels, q[2] \div ChunkPixels))
       THEN UNCHANGED <<chunks, buildings, idCounter>>
       ELSE \E g \in {generateChunk(w, q[1] \div ChunkPixels, q[2] \div ChunkPixels)} :
               /\ chunks' = [chunks EXCEPT ![w] =
                     MapSet(@, getChunkKey(q[1] \div ChunkPixels, q[2] \div ChunkPixels),
                            g.chunk)]
               /\ buildings' = [buildings EXCEPT ![w] = g.buildings]
               /\ idCounter' = g.idCounter
    /\ UNCHANGED <<animals, game, life, seed, noise, moistureNoise, terrain, npcs,
                   now, timers, started, genLog, removed, harvests>>

Query(w, op, q) ==
    /\ started[w]
    /\ last' = [op |-> op, w |-> w, x |-> q[1], y |-> q[2], radius |-> q[3],
                ret |-> CASE op = "getObjectsNear" -> getObjectsNear(w, q[1], q[2], q[3])
                          [] op = "getNPCsNear" -> getNPCsNear(w, q[1], q[2], q[3])
                          [] OTHER -> getBuildingsNear(w, q[1], q[2], q[3])]
    /\ UNCHANGED <<animals, game, life, seed, noise, moistureNoise, terrain, chunks, buildings, npcs,
                   idCounter, now, timers, started, genLog, removed, harvests>>

GetObjectsNear(w, q) == Query(w, "getObjectsNear", q)
GetNPCsNear(w, q) == Query(w, "getNPCsNear", q)
GetBuildingsNear(w, q) == Query(w, "getBuildingsNear", q)

\* The caller of a query writing to a field of the k-th record returned (here
\* x, raised by one).  Every returned record is a new object made by
\* { ...obj, distance: dist }, and the fields of an object, an NPC and a
\* building are numbers, strings and booleans, so the write reaches no
\* record of the world: SharedWith is the set of ids of the world's records
\* that are the same JavaScript object as the returned record e.
SharedWithItself(w, e) == {e.obj.id}
SharedWith(w, e) == {}
Written(o, reached) == IF o.id \in reached THEN [o EXCEPT !.x = @ + 1] ELSE o
WrittenAll(array, reached) == [j \in 1..Len(array) |-> Written(array[j], reached)]
ChangeReturnedReaching(w, k, reached) ==
    /\ last' = [op |-> "changeReturned", of |-> last.op, w |-> w, k |-> k,
                x |-> last.x, y |-> last.y,
                ret |-> [last.ret EXCEPT ![k].obj.x = @ + 1]]
    /\ chunks' = [chunks EXCEPT ![w] =
          [i \in 1..Len(@) |->
              [@[i] EXCEPT !.chunk.objects = WrittenAll(@, reached)]]]
    /\ npcs' = [npcs EXCEPT ![w] = WrittenAll(@, reached)]
    /\ buildings' = [buildings EXCEPT ![w] = WrittenAll(@, reached)]
    /\ UNCHANGED <<animals, game, life, seed, noise, moistureNoise, terrain,
                   idCounter, now, timers, started, genLog, removed, harvests>>
ChangeReturned(w, k) ==
    /\ last.op \in {"getObjectsNear", "getNPCsNear", "getBuildingsNear"}
    /\ last.w = w
    /\ k \in 1..Len(last.ret)
    /\ ChangeReturnedReaching(w, k, SharedWith(w, last.ret[k]))

\* ------------------------------------------------------------------------
\* World: the behaviour of the NPCs and the animals (World.update)
\* ------------------------------------------------------------------------
\* <<Math.cos(direction), Math.sin(direction)>> in units of 1/FP, for a
\* direction in milliradians.
CosSin(direction) ==
    LET a == direction % TWO_PI
        q == (4 * a) \div TWO_PI
        t == (((4 * a) % TWO_PI) * FP) \div TWO_PI
        c == QuarterCos(t)
        n == QuarterSin(t)
    IN CASE q = 0 -> <<c, n>>
         [] q = 1 -> <<-n, c>>
         [] q = 2 -> <<-c, -n>>
         [] OTHER -> <<n, -c>>

\* Math.atan2(dy, dx) in milliradians, in (-pi, pi]: the angle of the first
\* quadrant whose tangent is |dy| / |dx|, found by bisection, then placed in
\* the quadrant of (dx, dy).
RECURSIVE AtanBisect(_, _, _, _)
AtanBisect(lo, hi, dy, dx) ==
    IF hi - lo <= 1 THEN lo
    ELSE LET mid == (lo + hi) \div 2
             t == (mid * 10 * FP) \div HALF_PI
         IN IF QuarterSin(t) * dx <= QuarterCos(t) * dy
            THEN AtanBisect(mid, hi, dy, dx)
            ELSE AtanBisect(lo, mid, dy, dx)
atan2(dy, dx) ==
    LET a == AtanBisect(0, HALF_PI \div 10 + 1, Abs(dy), Abs(dx))
    IN CASE dx = 0 /\ dy = 0 -> 0
         [] dx >= 0 /\ dy >= 0 -> a
         [] dx < 0 /\ dy >= 0 -> TWO_PI \div 2 - a
         [] dx >= 0 /\ dy < 0 -> -a
         [] OTHER -> a - TWO_PI \div 2

\* Math.cos(direction) * speed * deltaTime (or the sine), rounded to the
\* pixel: cs is in units of 1/FP, speed in pixels per second, deltaTime in
\* milliseconds.
Stride(cs, speed, deltaTime) ==
    (cs * speed * deltaTime + (FP * 1000) \div 2) \div (FP * 1000)

\* Math.hypot(e.x - x, e.y - y) < range
Closer(e, x, y, range) == hypot(2 * (e.x - x), 2 * (e.y - y)) < 4 * range * range

\* Math.random() is drawn in thousandths; random.direction, random.timer
\* and random.turn are the draws an update makes for a new direction, a new
\* stateTimer and the direction after a rejected move.
\* Variants of the timer step: one that walks for 1 to 4 seconds, one that
\* never changes state.
NpcTimerBrief(npc, stateTimer, random) ==
    IF stateTimer > 0 THEN [npc EXCEPT !.stateTimer = stateTimer]
    ELSE IF npc.state = "idle"
         THEN [npc EXCEPT !.state = "walking",
                          !.direction = (random.direction * TWO_PI) \div 1000,
                          !.stateTimer = 1000 + 3 * random.timer]
         ELSE [npc EXCEPT !.state = "idle", !.stateTimer = 1000 + 4 * random.timer]
NpcTimerNever(npc, stateTimer, random) == [npc EXCEPT !.stateTimer = stateTimer]

\* updateNPC: the timer and the change of state.
NpcTimer(npc, stateTimer, random) ==
    IF stateTimer > 0 THEN [npc EXCEPT !.stateTimer = stateTimer]
    ELSE IF npc.state = "idle"
         THEN [npc EXCEPT !.state = "walking",
                          !.direction = (random.direction * TWO_PI) \div 1000,
                          !.stateTimer = 2000 + 3 * random.timer]
         ELSE [npc EXCEPT !.state = "idle", !.stateTimer = 1000 + 4 * random.timer]

\* A variant of the override that turns the NPC without stopping it.
NpcFaceOnly(npc, distToPlayer, playerX, playerY) ==
    IF distToPlayer
    THEN [npc EXCEPT !.direction = atan2(playerY - npc.y, playerX - npc.x)]
    ELSE npc

\* updateNPC: face the player if nearby.
NpcFace(npc, distToPlayer, playerX, playerY) ==
    IF distToPlayer
    THEN [npc EXCEPT !.direction = atan2(playerY - npc.y, playerX - npc.x),
                     !.state = "idle"]
    ELSE npc

\* A variant of the step that tests the destination for walkability alone.
NpcStepUntethered(w, npc, newX, newY) ==
    IF isWalkable(w, newX, newY)
    THEN [npc EXCEPT !.x = newX, !.y = newY]
    ELSE [npc EXCEPT !.direction = atan2(npc.homeY - npc.y, npc.homeX - npc.x)]

\* updateNPC: walk, staying within 150 pixels of home.
NpcStep(w, npc, newX, newY) ==
    IF Closer([x |-> newX, y |-> newY], npc.homeX, npc.homeY, 150)
       /\ isWalkable(w, newX, newY)
    THEN [npc EXCEPT !.x = newX, !.y = newY]
    ELSE [npc EXCEPT !.direction = atan2(npc.homeY - npc.y, npc.homeX - npc.x)]
NpcWalk(w, npc, cs, deltaTime) ==
    IF npc.state = "walking"
    THEN NpcStep(w, npc, npc.x + Stride(cs[1], 30, deltaTime),
                 npc.y + Stride(cs[2], 30, deltaTime))
    ELSE npc
NpcWalking(w, npc, deltaTime) == NpcWalk(w, npc, CosSin(npc.direction), deltaTime)

updateNPC(w, npc, deltaTime, playerX, playerY, random) ==
    NpcWalking(w, NpcFace(NpcTimer(npc, npc.stateTimer - deltaTime, random),
                          Closer(npc, playerX, playerY, 100), playerX, playerY),
               deltaTime)

\* updateAnimal: flee from the player.
\* A variant of the flight that fish take too.
AnimalFleeAll(animal, distToPlayer, playerX, playerY) ==
    IF distToPlayer
    THEN [animal EXCEPT !.state = "fleeing",
                        !.direction = atan2(animal.y - playerY, animal.x - playerX),
                        !.stateTimer = 2000]
    ELSE animal
AnimalFlee(animal, distToPlayer, playerX, playerY) ==
    IF distToPlayer /\ animal.type # "fish"
    THEN [animal EXCEPT !.state = "fleeing",
                        !.direction = atan2(animal.y - playerY, animal.x - playerX),
                        !.stateTimer = 2000]
    ELSE animal

\* A variant of the change of state in which an animal whose flight has
\* run out moves on.
AnimalTimerResume(animal, random) ==
    IF animal.stateTimer > 0 THEN animal
    ELSE IF animal.state \in {"idle", "fleeing"}
         THEN [animal EXCEPT !.state = "moving",
                             !.direction = (random.direction * TWO_PI) \div 1000,
                             !.stateTimer = 1000 + 2 * random.timer]
         ELSE [animal EXCEPT !.state = "idle", !.stateTimer = 2000 + 3 * random.timer]

\* updateAnimal: the change of state when the timer has run out.
AnimalTimer(animal, random) ==
    IF animal.stateTimer > 0 THEN animal
    ELSE IF animal.state = "idle"
         THEN [animal EXCEPT !.state = "moving",
                             !.direction = (random.direction * TWO_PI) \div 1000,
                             !.stateTimer = 1000 + 2 * random.timer]
         ELSE [animal EXCEPT !.state = "idle", !.stateTimer = 2000 + 3 * random.timer]

\* updateAnimal: move, fish within water and the others out of it.
\* A variant of the test that lets every animal go anywhere.
ValidBiomeAny(animal, newBiome) == TRUE
validBiome(animal, newBiome) ==
    IF animal.type = "fish" THEN newBiome = "water" ELSE newBiome # "water"
AnimalStep(w, animal, newX, newY, random) ==
    IF validBiome(animal, getBiome(w, newX, newY))
    THEN [animal EXCEPT !.x = newX, !.y = newY]
    ELSE [animal EXCEPT !.direction = (random.turn * TWO_PI) \div 1000]
AnimalMove(w, animal, cs, speed, deltaTime, random) ==
    AnimalStep(w, animal, animal.x + Stride(cs[1], speed, deltaTime),
               animal.y + Stride(cs[2], speed, deltaTime), random)
AnimalMoving(w, animal, deltaTime, random) ==
    IF animal.state \in {"moving", "fleeing"}
    THEN AnimalMove(w, animal, CosSin(animal.direction),
                    IF animal.state = "fleeing" THEN (animal.speed * 3) \div 2
                    ELSE animal.speed,
                    deltaTime, random)
    ELSE animal

updateAnimal(w, animal, deltaTime, playerX, playerY, random) ==
    AnimalMoving(w, AnimalTimer(AnimalFlee([animal EXCEPT !.stateTimer = @ - deltaTime],
                                           Closer(animal, playerX, playerY, 80),
                                           playerX, playerY),
                                random),
                 deltaTime, random)

\* World.update(deltaTime, playerX, playerY): every NPC, then every animal.
\* The history notes the simulated time, whether an NPC has changed state,
\* whether the player has been within 100 pixels of an NPC, and the player's
\* position with the number of times it has changed between two calls.
update(w, deltaTime, playerX, playerY, random, ns, as) ==
    /\ started[w]
    /\ npcs' = [npcs EXCEPT ![w] = ns]
    /\ animals' = [animals EXCEPT ![w] = as]
    /\ life' = [elapsed |-> life.elapsed + deltaTime,
                changed |-> life.changed
                            \/ \E i \in 1..Len(ns) : ns[i].state # npcs[w][i].state,
                near |-> life.near
                         \/ \E i \in 1..Len(ns) :
                                Closer(npcs[w][i], playerX, playerY, 100),
                player |-> <<playerX, playerY>>,
                moves |-> IF <<playerX, playerY>> = life.player THEN life.moves
                          ELSE life.moves + 1]
updateAll(w, deltaTime, playerX, playerY, random) ==
    update(w, deltaTime, playerX, playerY, random,
           [i \in 1..Len(npcs[w]) |->
               updateNPC(w, npcs[w][i], deltaTime, playerX, playerY, random)],
           [i \in 1..Len(animals[w]) |->
               updateAnimal(w, animals[w][i], deltaTime, playerX, playerY, random)])

\* A call of World.update on its own.
Update(w, deltaTime, playerX, playerY, random) ==
    /\ updateAll(w, deltaTime, playerX, playerY, random)
    /\ last' = [op |-> "update", w |-> w]
    /\ UNCHANGED <<game, seed, noise, moistureNoise, terrain, chunks, buildings,
                   idCounter, now, timers, started, genLog, removed, harvests>>

\* ------------------------------------------------------------------------
\* Game: the game loop
\* ------------------------------------------------------------------------
\* A variant of the frame time that is not clamped.
FrameTimeRaw(currentTime, lastTime) == currentTime - lastTime

\* Math.min((currentTime - this.lastTime) / 1000, 0.1), in milliseconds
FrameTime(currentTime, lastTime) ==
    IF currentTime - lastTime < 100 THEN currentTime - lastTime ELSE 100

\* Game.update(deltaTime), as far as the time of day goes: gameTime moves on
\* by deltaTime / DAY_LENGTH * 24 hours and wraps at 24.
DAY_LENGTH == 600
GameTime(gameTime, deltaTime) ==
    LET t == gameTime + (deltaTime * 24 * 100) \div DAY_LENGTH
    IN IF t >= 24 * 100000 THEN t - 24 * 100000 ELSE t

\* gameLoop(currentTime), the requestAnimationFrame callback: one update
\* with the clamped frame time, then one render.  No key is held, so that
\* Player.update leaves the player at the start; calls lists the calls in
\* the order the frame makes them.
GameLoopWith(w, currentTime, deltaTime, random) ==
    /\ game.running
    /\ game' = [game EXCEPT !.lastTime = currentTime,
                            !.gameTime = GameTime(@, deltaTime),
                            !.updates = @ + 1,
                            !.renders = @ + 1]
    /\ updateAll(w, deltaTime, PlayerStart[1], PlayerStart[2], random)
    /\ last' = [op |-> "gameLoop", w |-> w, currentTime |-> currentTime,
                deltaTime |-> deltaTime,
                calls |-> <<"update", "render", "input.update",
                            "requestAnimationFrame">>]
    /\ UNCHANGED <<seed, noise, moistureNoise, terrain, chunks, buildings,
                   idCounter, now, timers, started, genLog, removed, harvests>>

GameLoop(w, currentTime, random) ==
    GameLoopWith(w, currentTime, FrameTime(currentTime, game.lastTime), random)

\* ------------------------------------------------------------------------
\* The program: the operations in any order, after Game.start
\* ------------------------------------------------------------------------
Next ==
    \/ \E w \in Worlds : Start(w)
    \/ \E w \in Worlds, c \in ChunkCoords : GetChunk(w, c[1], c[2])
    \/ \E w \in Worlds : \E objectId \in HarvestIds(w) : HarvestObject(w, objectId)
    \/ RespawnFire
    \/ AdvanceClock
    \/ \E w \in Worlds, q \in ObjectQueries : GetObjectsNear(w, q)
    \/ \E w \in Worlds, q \in NpcQueries : GetNPCsNear(w, q)
    \/ \E w \in Worlds, q \in BuildingQueries : GetBuildingsNear(w, q)
    \/ \E w \in Worlds, p \in WalkCalls : IsWalkable(w, p[1], p[2])

Spec == Init /\ [][Next]_vars

\* ------------------------------------------------------------------------
\* Two worlds in one process, used through the World class alone: they share
\* idCounter.  The second world only generates chunks.
\* ------------------------------------------------------------------------
InitTwo == InitWorlds({1, 2}, TRUE, [op |-> "new"])

NextTwo ==
    \/ \E w \in Worlds, c \in ChunkCoords : GetChunk(w, c[1], c[2])
    \/ \E objectId \in HarvestIds(1) : HarvestObject(1, objectId)

SpecTwo == InitTwo /\ [][NextTwo]_vars

\* ------------------------------------------------------------------------
\* getBiome's classifier on its own: every pair of an elevation and a
\* moisture of the grids, which hold each threshold and its neighbours.
\* ------------------------------------------------------------------------
ElevationGrid == {-FP, -3001, -3000, -2999, -2001, -2000, -1999, 0,
                  4999, 5000, 5001, 5999, 6000, 6001, FP}
MoistureGrid == {-FP, -2001, -2000, -1999, 0, 2999, 3000, 3001, FP}

InitBiome ==
    \E e \in ElevationGrid, m \in MoistureGrid :
        InitWorlds({}, FALSE, [op |-> "input", elevation |-> e, moisture |-> m])

ClassifyBiome ==
    /\ last.op = "input"
    /\ last' = [op |-> "getBiome", elevation |-> last.elevation,
                moisture |-> last.moisture,
                ret |-> BiomeOf(last.elevation, last.moisture)]
    /\ UNCHANGED <<animals, game, life, seed, noise, moistureNoise, terrain, chunks, buildings, npcs,
                   idCounter, now, timers, started, genLog, removed, harvests>>

NextBiome == ClassifyBiome

SpecBiome == InitBiome /\ [][NextBiome]_vars

\* ------------------------------------------------------------------------
\* SeededRandom on its own: a stream constructed with a seed of RngSeeds,
\* then next() and nextInt(min, max) in any order.  The seeds are the ends
\* of the 32-bit range TLC can hold, 0, the modulus and its neighbour, and
\* chunk seeds seed + chunkX * 1000 + chunkY of the world seed 12345, those
\* of the chunks (14, 10), (-13, 0) and (-12, -345) among them.
\* ------------------------------------------------------------------------
MaxDraws == 4
RngSeeds == {-2147483647, -655, -1, 0, 1, 12345, 26355, 2147483646, 2147483647}
IntRanges == {<<2, 4>>, <<60, 100>>, <<0, 0>>}

InitRng ==
    \E s \in RngSeeds :
        InitWorlds({}, FALSE, [op |-> "SeededRandom", seed |-> s, state |-> s, draws |-> 0])

\* rng.next(): the value returned is state / m, held as the state.
RngNext ==
    /\ last.op \in {"SeededRandom", "next", "nextInt"}
    /\ last.draws < MaxDraws
    /\ last' = [op |-> "next", seed |-> last.seed, state |-> NextState(last.state),
                draws |-> last.draws + 1]
    /\ UNCHANGED <<animals, game, life, seed, noise, moistureNoise, terrain, chunks, buildings, npcs,
                   idCounter, now, timers, started, genLog, removed, harvests>>

\* rng.nextInt(min, max)
RngNextInt(min, max) ==
    /\ last.op \in {"SeededRandom", "next", "nextInt"}
    /\ last.draws < MaxDraws
    /\ last' = [op |-> "nextInt", seed |-> last.seed, state |-> NextState(last.state),
                draws |-> last.draws + 1, min |-> min, max |-> max,
                ret |-> NextIntOf(NextState(last.state), min, max)]
    /\ UNCHANGED <<animals, game, life, seed, noise, moistureNoise, terrain, chunks, buildings, npcs,
                   idCounter, now, timers, started, genLog, removed, harvests>>

NextRng ==
    \/ RngNext
    \/ \E r \in IntRanges : RngNextInt(r[1], r[2])

SpecRng == InitRng /\ [][NextRng]_vars

\* ------------------------------------------------------------------------
\* The seeds of chunkRng on their own: generateChunk's first statement for
\* two chunk coordinates of one world.
\* ------------------------------------------------------------------------
SeedCoords == {-1, 0, 13, 14} \X {-1000, -1, 0, 10, 999, 1000, 1010}

InitSeed == InitWorlds({1}, TRUE, [op |-> "new"])

ChunkRngSeeds(w, c1, c2) ==
    /\ last.op = "new"
    /\ last' = [op |-> "chunkRng", w |-> w, first |-> c1, second |-> c2,
                firstSeed |-> ChunkSeed(w, c1[1], c1[2]),
                secondSeed |-> ChunkSeed(w, c2[1], c2[2])]
    /\ UNCHANGED <<animals, game, life, seed, noise, moistureNoise, terrain, chunks, buildings, npcs,
                   idCounter, now, timers, started, genLog, removed, harvests>>

NextSeed == \E w \in Worlds, c1 \in SeedCoords, c2 \in SeedCoords : ChunkRngSeeds(w, c1, c2)

SpecSeed == InitSeed /\ [][NextSeed]_vars

\* ------------------------------------------------------------------------
\* The life of one NPC or animal.  World.update handles every NPC and every
\* animal by itself, from its own fields, the arguments of the call and the
\* terrain: the world here is a world of seed 20 that keeps one of the NPCs
\* or animals Game.start spawns, and is updated for MaxElapsed milliseconds
\* with the player far away or close by.
\* ------------------------------------------------------------------------
LifeSeeds == {20}
\* NPC 18 changes state within the first 200 ms; animal 2 is the fish, 24
\* pixels from the shore; animal 3 is a rabbit 32 pixels from the water.
FollowedNpcs == {18}
FollowedAnimals == {2, 3}

Followed(a, b, is, js) ==
    {[npcs |-> <<a.npcs[i]>>, animals |-> <<>>, idCounter |-> b.idCounter] : i \in is}
    \cup {[npcs |-> <<>>, animals |-> <<b.animals[j]>>, idCounter |-> b.idCounter] :
              j \in js}

InitLife ==
    /\ InitGame({1}, LifeSeeds, FALSE, [op |-> "new"])
    /\ npcs = [w \in {1} |-> <<>>]
    /\ animals = [w \in {1} |-> <<>>]
    /\ idCounter = 0

\* Game.start, keeping one of the NPCs and animals it spawned.
StartFollowed(w, a, b, is, js) ==
    /\ ~started[w]
    /\ \E f \in Followed(a, b, is, js) : StartWith(w, f, f)
StartFollowedAnimals(w, a, is, js) ==
    StartFollowed(w, a, spawnAnimals(w, a.idCounter, PlayerStart[1], PlayerStart[2]),
                  is, js)
StartFollowing(w, is, js) ==
    StartFollowedAnimals(w, spawnNPCs(w, PlayerStart[1], PlayerStart[2]), is, js)
StartLife(w) == StartFollowing(w, FollowedNpcs, FollowedAnimals)

\* The arguments of World.update: a frame of 50 or 100 ms; the player at
\* the start, 60 pixels from NPC 18, 51 pixels from the rabbit, on the side
\* away from the water, or 22 pixels from the fish; the draws of
\* Math.random().
DeltaTimes == {50, 100}
Spots == {<<31763, 31981>>, <<31719, 31650>>, <<31927, 31640>>}
PlayerSpots(w) ==
    {PlayerStart}
    \cup {p \in Spots : \E i \in 1..Len(npcs[w]) : Closer(npcs[w][i], p[1], p[2], 300)}
    \cup {p \in Spots : \E j \in 1..Len(animals[w]) : Closer(animals[w][j], p[1], p[2], 300)}
Randoms == {[direction |-> 250, timer |-> 0, turn |-> 500],
            [direction |-> 750, timer |-> 999, turn |-> 500]}

\* The updates stop after MaxElapsed milliseconds, and the player changes
\* position between two calls at most MaxMoves times.
MaxElapsed == 3000
MaxMoves == 1
UpdateLife(w, deltaTime, playerX, playerY, random) ==
    /\ life.elapsed < MaxElapsed
    /\ <<playerX, playerY>> = life.player \/ life.moves < MaxMoves
    /\ Update(w, deltaTime, playerX, playerY, random)

NextLife ==
    \/ \E w \in Worlds : StartLife(w)
    \/ \E w \in Worlds, deltaTime \in DeltaTimes, random \in Randoms :
          \E p \in PlayerSpots(w) : UpdateLife(w, deltaTime, p[1], p[2], random)

SpecLife == InitLife /\ [][NextLife]_vars

\* The same world keeping an NPC, with the player at the start for good, 200
\* pixels or more from where any NPC is spawned: NPC 1 is spawned with a
\* stateTimer of 4.4 seconds, NPC 18 with one of 0.2 seconds.  A frame
\* takes 50 or 100 ms until the NPC first changes state and 100 ms from then
\* on, until MaxIdle milliseconds have passed.
IdleNpcs == {1, 18}
MaxIdle == 10000
StartIdle(w) == StartFollowing(w, IdleNpcs, {})
UpdateIdle(w, deltaTime, random) ==
    /\ life.elapsed < MaxIdle
    /\ deltaTime = 100 \/ ~life.changed
    /\ Update(w, deltaTime, PlayerStart[1], PlayerStart[2], random)

NextIdle ==
    \/ \E w \in Worlds : StartIdle(w)
    \/ \E w \in Worlds, deltaTime \in DeltaTimes, random \in Randoms :
          UpdateIdle(w, deltaTime, random)

SpecIdle == InitLife /\ [][NextIdle]_vars

\* The game loop of the same world keeping NPC 18, for MaxFrames frames: the
\* host calls back at once, after a frame of 16 or 100 ms, or after a stall.
Waits == {0, 16, 100, 250, 5000}
MaxFrames == 4
StartLoop(w) == StartFollowing(w, FollowedNpcs, {})
Frame(w, wait, random) ==
    /\ game.updates < MaxFrames
    /\ GameLoop(w, game.lastTime + wait, random)

NextLoop ==
    \/ \E w \in Worlds : StartLoop(w)
    \/ \E w \in Worlds, wait \in Waits, random \in Randoms : Frame(w, wait, random)

SpecLoop == InitLife /\ [][NextLoop]_vars

\* The same world keeping the rabbit or the fish, in frames of 100 ms for
\* MaxFlee milliseconds: the player stands at the start or 51 pixels from
\* where the rabbit is spawned, and goes from one to the other at most
\* MaxVisits times.
FleeAnimals == {2, 3}
FleeSpots == {PlayerStart, <<31719, 31650>>}
MaxFlee == 4000
MaxVisits == 2
StartFlee(w) == StartFollowing(w, {}, FleeAnimals)
UpdateFlee(w, playerX, playerY, random) ==
    /\ life.elapsed < MaxFlee
    /\ <<playerX, playerY>> = life.player \/ life.moves < MaxVisits
    /\ Update(w, 100, playerX, playerY, random)

NextFlee ==
    \/ \E w \in Worlds : StartFlee(w)
    \/ \E w \in Worlds, p \in FleeSpots, random \in Randoms :
          UpdateFlee(w, p[1], p[2], random)

SpecFlee == InitLife /\ [][NextFlee]_vars

\* The world of Spec with one NPC of those Game.start spawns kept: chunk
\* generation, harvests, the clock and the respawn callbacks in any order
\* with up to MaxUpdates calls of World.update, the player at the start.
RespawnNpcs == {1}
MaxUpdates == 1
StartRespawn(w) == StartFollowing(w, RespawnNpcs, {})
UpdateRespawn(w, random) ==
    /\ life.elapsed < MaxUpdates * 100
    /\ Update(w, 100, PlayerStart[1], PlayerStart[2], random)

NextRespawn ==
    \/ \E w \in Worlds : StartRespawn(w)
    \/ \E w \in Worlds, c \in ChunkCoords : GetChunk(w, c[1], c[2])
    \/ \E w \in Worlds : \E objectId \in HarvestIds(w) : HarvestObject(w, objectId)
    \/ RespawnFire
    \/ AdvanceClock
    \/ \E w \in Worlds, random \in Randoms : UpdateRespawn(w, random)

SpecRespawn == Init /\ [][NextRespawn]_vars

\* ------------------------------------------------------------------------
\* The chunk (-13, 0) of a world of seed 12345 used through the World class:
\* the seed of its chunkRng is 12345 - 13000 = -655.  Once it is generated,
\* getObjectsNear is called with points to its west, in the chunk next to it
\* (x >= -7168) and in the one beyond.
\* ------------------------------------------------------------------------
OutskirtChunk == <<-13, 0>>
OutskirtQueries ==
    {<<x, y, radius>> : x \in (-7176)..(-7165), y \in {-330, -29, 0, 100, 250},
                        radius \in {505, ChunkPixels}}

NextOutskirts ==
    \/ \E w \in Worlds : GetChunk(w, OutskirtChunk[1], OutskirtChunk[2])
    \/ \E w \in Worlds, q \in OutskirtQueries :
          /\ MapHas(chunks[w], getChunkKey(OutskirtChunk[1], OutskirtChunk[2]))
          /\ GetObjectsNear(w, q)

SpecOutskirts == InitWorlds({1}, TRUE, [op |-> "new"]) /\ [][NextOutskirts]_vars

\* ------------------------------------------------------------------------
\* A game of a world of seed 122 from Game.start on, keeping NPC 10 of those
\* spawnNPCs makes: the NPCs are spawned while this.buildings is still
\* empty, and preGenerateChunks then generates the 7 x 7 block of chunks
\* around the player's chunk (62, 62), of which chunk (61, 62) is the one
\* NPC 10 stands in.  World.update follows for MaxSettle milliseconds with
\* the player at the start.
\* ------------------------------------------------------------------------
SettleSeeds == {122}
SettleNpcs == {10}
SettleChunks == {<<61, 62>>}
MaxSettle == 6000

InitSettle ==
    /\ InitGame({1}, SettleSeeds, FALSE, [op |-> "new"])
    /\ npcs = [w \in {1} |-> <<>>]
    /\ animals = [w \in {1} |-> <<>>]
    /\ idCounter = 0

StartSettle(w) == StartFollowing(w, SettleNpcs, {})
UpdateSettle(w, random) ==
    /\ life.elapsed < MaxSettle
    /\ Update(w, 100, PlayerStart[1], PlayerStart[2], random)

NextSettle ==
    \/ \E w \in Worlds : StartSettle(w)
    \/ \E w \in Worlds, c \in SettleChunks : GetChunk(w, c[1], c[2])
    \/ \E w \in Worlds, random \in Randoms : UpdateSettle(w, random)

SpecSettle == InitSettle /\ [][NextSettle]_vars

\* ------------------------------------------------------------------------
\* Player: the inventory, and crafting
\* ------------------------------------------------------------------------
\* ITEMS: what addItem reads of an item definition.  An item that is not
\* stackable has no maxStack.
ITEMS ==
    [wood |-> [stackable |-> TRUE, maxStack |-> 99],
     stone |-> [stackable |-> TRUE, maxStack |-> 99],
     flower |-> [stackable |-> TRUE, maxStack |-> 99],
     apple |-> [stackable |-> TRUE, maxStack |-> 20],
     fish |-> [stackable |-> TRUE, maxStack |-> 20],
     mushroom |-> [stackable |-> TRUE, maxStack |-> 20],
     berry |-> [stackable |-> TRUE, maxStack |-> 30],
     axe |-> [stackable |-> FALSE],
     pickaxe |-> [stackable |-> FALSE],
     sword |-> [stackable |-> FALSE],
     torch |-> [stackable |-> TRUE, maxStack |-> 10],
     key |-> [stackable |-> FALSE],
     coin |-> [stackable |-> TRUE, maxStack |-> 999],
     gem |-> [stackable |-> TRUE, maxStack |-> 50],
     potion |-> [stackable |-> TRUE, maxStack |-> 10]]

\* RECIPES: materials holds Object.entries(recipe.materials), in order.
RECIPES ==
    <<[result |-> "axe", resultCount |-> 1,
       materials |-> <<<<"wood", 3>>, <<"stone", 2>>>>],
      [result |-> "pickaxe", resultCount |-> 1,
       materials |-> <<<<"wood", 2>>, <<"stone", 3>>>>],
      [result |-> "sword", resultCount |-> 1,
       materials |-> <<<<"wood", 1>>, <<"stone", 4>>>>],
      [result |-> "torch", resultCount |-> 3, materials |-> <<<<"wood", 2>>>>],
      [result |-> "potion", resultCount |-> 1,
       materials |-> <<<<"flower", 3>>, <<"mushroom", 2>>, <<"berry", 5>>>>]>>

\* The sizes of this.inventory and this.quickbar.  A slot is Null or
\* [id, count]; slots are numbered from 1 here, and findIndex gives 0 where
\* the program gives -1.
InventorySlots == 24
QuickbarSlots == 8
Minimum(a, b) == IF a < b THEN a ELSE b
findEmpty(slots) ==
    IF \E i \in 1..Len(slots) : slots[i] = Null
    THEN MinOf({i \in 1..Len(slots) : slots[i] = Null})
    ELSE 0

\* One of the two stacking loops of addItem, from slot i on: the slots and
\* the amount as the loop leaves them, and whether it returned true.
RECURSIVE StackInto(_, _, _, _, _)
StackInto(slots, itemId, maxStack, amount, i) ==
    IF i > Len(slots) THEN [slots |-> slots, amount |-> amount, done |-> FALSE]
    ELSE IF slots[i] # Null /\ slots[i].id = itemId /\ slots[i].count < maxStack
         THEN IF amount - Minimum(amount, maxStack - slots[i].count) <= 0
              THEN [slots |-> [slots EXCEPT ![i].count =
                                  @ + Minimum(amount, maxStack - @)],
                    amount |-> amount - Minimum(amount, maxStack - slots[i].count),
                    done |-> TRUE]
              ELSE StackInto([slots EXCEPT ![i].count =
                                 @ + Minimum(amount, maxStack - @)],
                             itemId, maxStack,
                             amount - Minimum(amount, maxStack - slots[i].count),
                             i + 1)
         ELSE StackInto(slots, itemId, maxStack, amount, i + 1)

\* The while loop of addItem: one empty slot per turn, of the quickbar
\* first, and false when there is none.
RECURSIVE FillEmpty(_, _, _, _)
FillEmpty(p, itemId, itemDef, amount) ==
    IF amount <= 0 THEN [player |-> p, ret |-> TRUE]
    ELSE IF findEmpty(p.quickbar) = 0 /\ findEmpty(p.inventory) = 0
         THEN [player |-> p, ret |-> FALSE]
         ELSE LET addAmount == IF itemDef.stackable
                               THEN Minimum(amount, itemDef.maxStack) ELSE 1
                  item == [id |-> itemId, count |-> addAmount]
              IN IF findEmpty(p.quickbar) # 0
                 THEN FillEmpty([p EXCEPT !.quickbar[findEmpty(p.quickbar)] = item],
                                itemId, itemDef, amount - addAmount)
                 ELSE FillEmpty([p EXCEPT !.inventory[findEmpty(p.inventory)] = item],
                                itemId, itemDef, amount - addAmount)

\* addItem after the quickbar's stacking loop q, then after the inventory's
\* stacking loop r.
AddAfterInventory(p, q, r, itemId, itemDef) ==
    IF r.done
    THEN [player |-> [p EXCEPT !.quickbar = q.slots, !.inventory = r.slots],
          ret |-> TRUE]
    ELSE FillEmpty([p EXCEPT !.quickbar = q.slots, !.inventory = r.slots],
                   itemId, itemDef, r.amount)
AddAfterQuickbar(p, q, itemId, itemDef) ==
    IF q.done THEN [player |-> [p EXCEPT !.quickbar = q.slots], ret |-> TRUE]
    ELSE AddAfterInventory(p, q,
                           StackInto(p.inventory, itemId, itemDef.maxStack, q.amount, 1),
                           itemId, itemDef)

\* addItem(itemId, amount) on the player p = [quickbar, inventory]: the
\* player afterwards and the value returned.
addItem(p, itemId, amount) ==
    IF itemId \notin DOMAIN ITEMS THEN [player |-> p, ret |-> FALSE]
    ELSE IF ITEMS[itemId].stackable
         THEN AddAfterQuickbar(p, StackInto(p.quickbar, itemId, ITEMS[itemId].maxStack,
                                            amount, 1),
                               itemId, ITEMS[itemId])
         ELSE FillEmpty(p, itemId, ITEMS[itemId], amount)

\* One of the two loops of removeItem, from slot i on.
RECURSIVE RemoveFrom(_, _, _, _)
RemoveFrom(slots, itemId, remaining, i) ==
    IF i > Len(slots) \/ remaining <= 0 THEN [slots |-> slots, remaining |-> remaining]
    ELSE IF slots[i] # Null /\ slots[i].id = itemId
         THEN LET toRemove == Minimum(remaining, slots[i].count)
              IN RemoveFrom([slots EXCEPT ![i] =
                                IF slots[i].count - toRemove <= 0 THEN Null
                                ELSE [slots[i] EXCEPT !.count = @ - toRemove]],
                            itemId, remaining - toRemove, i + 1)
         ELSE RemoveFrom(slots, itemId, remaining, i + 1)

RemoveAfterQuickbar(p, q, r) ==
    [player |-> [p EXCEPT !.quickbar = q.slots, !.inventory = r.slots],
     ret |-> r.remaining = 0]

\* removeItem(itemId, amount).
removeItem(p, itemId, amount) ==
    LET q == RemoveFrom(p.quickbar, itemId, amount, 1)
    IN RemoveAfterQuickbar(p, q, RemoveFrom(p.inventory, itemId, q.remaining, 1))

RECURSIVE CountIn(_, _, _)
CountIn(slots, itemId, i) ==
    IF i > Len(slots) THEN 0
    ELSE CountIn(slots, itemId, i + 1)
         + IF slots[i] # Null /\ slots[i].id = itemId THEN slots[i].count ELSE 0

\* countItem(itemId) and hasItem(itemId, amount).
countItem(p, itemId) == CountIn(p.quickbar, itemId, 1) + CountIn(p.inventory, itemId, 1)
hasItem(p, itemId, amount) == countItem(p, itemId) >= amount

\* new Player(x, y): empty slots, then the starting items.
NoItems ==
    [quickbar |-> [i \in 1..QuickbarSlots |-> Null],
     inventory |-> [i \in 1..InventorySlots |-> Null]]
NewPlayer == addItem(addItem(NoItems, "apple", 5).player, "torch", 2).player

\* UIManager.canCraftRecipe(recipe, player).
canCraftRecipe(recipe, p) ==
    \A k \in 1..Len(recipe.materials) :
        hasItem(p, recipe.materials[k][1], recipe.materials[k][2])

\* The loop of craftRecipe that removes the materials, from entry k on.
RECURSIVE RemoveMaterials(_, _, _)
RemoveMaterials(p, materials, k) ==
    IF k > Len(materials) THEN p
    ELSE RemoveMaterials(removeItem(p, materials[k][1], materials[k][2]).player,
                         materials, k + 1)

\* UIManager.craftRecipe(recipe): the player afterwards.
craftRecipe(p, recipe) ==
    IF ~canCraftRecipe(recipe, p) THEN p
    ELSE addItem(RemoveMaterials(p, recipe.materials, 1),
                 recipe.result, recipe.resultCount).player

\* ------------------------------------------------------------------------
\* A started game used through its player only: the calls of addItem that
\* harvests and quest rewards make, of removeItem, and of craftRecipe for
\* every recipe, MaxCalls calls in all.  The game record holds the player
\* and the number of calls made.  "feather" is not an item.
\* ------------------------------------------------------------------------
MaxCalls == 4
AddCalls == {<<"wood", 5>>, <<"stone", 3>>, <<"key", 28>>, <<"torch", 9>>,
             <<"axe", 2>>, <<"feather", 1>>, <<"apple", 40>>}
RemoveCalls == {<<"apple", 5>>, <<"wood", 2>>, <<"key", 1>>}

InitPlayer ==
    /\ seed = <<>>
    /\ noise = <<>>
    /\ moistureNoise = <<>>
    /\ terrain = <<>>
    /\ chunks = <<>>
    /\ buildings = <<>>
    /\ npcs = <<>>
    /\ animals = <<>>
    /\ game = [running |-> TRUE, lastTime |-> 0, gameTime |-> NewGame.gameTime,
               updates |-> 0, renders |-> 0, player |-> NewPlayer, calls |-> 0]
    /\ idCounter = 0
    /\ now = 0
    /\ timers = <<>>
    /\ started = <<>>
    /\ genLog = <<>>
    /\ removed = {}
    /\ harvests = 0
    /\ life = NoLife
    /\ last = [op |-> "start"]

PlayerCall(p, call) ==
    /\ game.calls < MaxCalls
    /\ game' = [game EXCEPT !.player = p, !.calls = @ + 1]
    /\ last' = call
    /\ UNCHANGED <<seed, noise, moistureNoise, terrain, chunks, buildings, npcs,
                   animals, idCounter, now, timers, started, genLog, removed,
                   harvests, life>>

AddItemWith(itemId, amount, r) ==
    PlayerCall(r.player, [op |-> "addItem", itemId |-> itemId, amount |-> amount,
                          ret |-> r.ret])
AddItem(itemId, amount) == AddItemWith(itemId, amount, addItem(game.player, itemId, amount))

RemoveItemWith(itemId, amount, r) ==
    PlayerCall(r.player, [op |-> "removeItem", itemId |-> itemId, amount |-> amount,
                          ret |-> r.ret])
RemoveItem(itemId, amount) ==
    RemoveItemWith(itemId, amount, removeItem(game.player, itemId, amount))

CraftRecipe(k) ==
    PlayerCall(craftRecipe(game.player, RECIPES[k]),
               [op |-> "craftRecipe", recipe |-> k,
                can |-> canCraftRecipe(RECIPES[k], game.player)])

NextPlayer ==
    \/ \E c \in AddCalls : AddItem(c[1], c[2])
    \/ \E c \in RemoveCalls : RemoveItem(c[1], c[2])
    \/ \E k \in 1..Len(RECIPES) : CraftRecipe(k)

SpecPlayer == InitPlayer /\ [][NextPlayer]_vars

\* ------------------------------------------------------------------------
\* The queries on their own: the world of Spec with its NPCs, the chunks
\* generated in any order, the queries at the query points and, for the
\* NPCs, around the player's start, and a write by the caller to one of the
\* MaxChanged first records of the latest result.
\* ------------------------------------------------------------------------
MaxChanged == 4
StartQueries == {<<PlayerStart[1], PlayerStart[2], 300>>}
NextQuery ==
    \/ \E w \in Worlds : Start(w)
    \/ \E w \in Worlds, c \in ChunkCoords : GetChunk(w, c[1], c[2])
    \/ \E w \in Worlds, q \in ObjectQueries \cup NpcQueries : GetObjectsNear(w, q)
    \/ \E w \in Worlds, q \in NpcQueries \cup StartQueries : GetNPCsNear(w, q)
    \/ \E w \in Worlds, q \in ObjectQueries \cup BuildingQueries : GetBuildingsNear(w, q)
    \/ \E w \in Worlds, k \in 1..MaxChanged : ChangeReturned(w, k)

SpecQuery == Init /\ [][NextQuery]_vars

\* ------------------------------------------------------------------------
\* SimplexNoise on its own: the elevation noise of a world, sampled once by
\* noise2D or by fbm with 1 to 8 octaves at a point given in tenths.  The
\* numerators hold negative coordinates, lattice points, coordinates past
\* the 256-cell period and points where the octaves add up in one direction.
\* ------------------------------------------------------------------------
SampleDenominator == 10
SampleNumerators == {-2563, -7, 0, 5, 324, 336, 534, 708, 2559, 100003}
Octaves == 1..8

InitNoise ==
    \E xn \in SampleNumerators, yn \in SampleNumerators :
        InitWorlds({1}, TRUE, [op |-> "sample", xn |-> xn, yn |-> yn])

SampleNoise2D(w) ==
    /\ last.op = "sample"
    /\ last' = [op |-> "noise2D", xn |-> last.xn, yn |-> last.yn,
                ret |-> noise2D(noise[w], last.xn, SampleDenominator,
                                last.yn, SampleDenominator)]
    /\ UNCHANGED <<animals, game, life, seed, noise, moistureNoise, terrain,
                   chunks, buildings, npcs, idCounter, now, timers, started,
                   genLog, removed, harvests>>

SampleFbm(w, octaves) ==
    /\ last.op = "sample"
    /\ last' = [op |-> "fbm", xn |-> last.xn, yn |-> last.yn,
                octaves |-> octaves,
                ret |-> fbm(noise[w], last.xn, SampleDenominator,
                            last.yn, SampleDenominator, octaves)]
    /\ UNCHANGED <<animals, game, life, seed, noise, moistureNoise, terrain,
                   chunks, buildings, npcs, idCounter, now, timers, started,
                   genLog, removed, harvests>>

NextNoise ==
    \/ SampleNoise2D(1)
    \/ \E o \in Octaves : SampleFbm(1, o)

SpecNoise == InitNoise /\ [][NextNoise]_vars

\* ------------------------------------------------------------------------
\* The placement tests of one tile on their own: the body of generateChunk's
\* object loop for a tile of a given biome, run from each state of TileStreams
\* of chunkRng in turn.  The call record gathers what each run placed: the
\* set of the types of the objects, with "building" for a building.
\* ------------------------------------------------------------------------
TileStreams == {1, 5000, 8000, 9000, 20000, 42672}

Placed(a) ==
    {a.objects[k].type : k \in 1..Len(a.objects)}
    \cup (IF a.buildings # <<>> THEN {"building"} ELSE {})

InitTile ==
    \E biome \in Biomes :
        InitWorlds({}, FALSE, [op |-> "tiles", biome |-> biome, tried |-> {}, placed |-> {}])

PlaceTile(st) ==
    /\ last.op = "tiles"
    /\ st \notin last.tried
    /\ last' = [last EXCEPT
                   !.tried = @ \cup {st},
                   !.placed = @ \cup {Placed(TileStep([st |-> st, objects |-> <<>>,
                                                        buildings |-> <<>>,
                                                        idCounter |-> idCounter],
                                                       TILE_SIZE \div 2, TILE_SIZE \div 2,
                                                       last.biome))}]
    /\ UNCHANGED <<animals, game, life, seed, noise, moistureNoise, terrain, chunks, buildings, npcs,
                   idCounter, now, timers, started, genLog, removed, harvests>>

NextTile == \E st \in TileStreams : PlaceTile(st)

SpecTile == InitTile /\ [][NextTile]_vars

\* ------------------------------------------------------------------------
\* Generation on its own: either a world whose chunks of ChunkCoords are
\* generated by getChunk, or the placement tests of one tile of any biome
\* (the terrain of the explored chunks holds no rocky or mountain tile).
\* ------------------------------------------------------------------------
InitChunk == InitWorlds({1}, TRUE, [op |-> "new"]) \/ InitTile

NextChunk ==
    \/ \E w \in Worlds, c \in ChunkCoords : GetChunk(w, c[1], c[2])
    \/ \E st \in TileStreams : PlaceTile(st)

SpecChunk == InitChunk /\ [][NextChunk]_vars

\* ------------------------------------------------------------------------
\* Properties of the chunk cache and of generation
\* ------------------------------------------------------------------------
\* C1: a world generates each chunk coordinate at most once and stores the
\* chunk; a getChunk on a stored coordinate generates nothing and leaves the
\* chunks, the building list and the id counter as they were.
C1_GeneratedOnce ==
    [][/\ \A w \in Worlds : \A i, j \in 1..Len(genLog'[w]) :
              genLog'[w][i].key = genLog'[w][j].key => i = j
       /\ last'.op = "getChunk" => MapHas(chunks'[last'.w], last'.key)
       /\ (last'.op = "getChunk" /\ MapHas(chunks[last'.w], last'.key)) =>
              /\ ~last'.generated
              /\ UNCHANGED <<chunks, buildings, idCounter, genLog>>]_vars

\* A getChunk served from the cache, on a chunk that holds objects.
C1_Witness ==
    /\ last.op = "getChunk"
    /\ ~last.generated
    /\ MapHas(chunks[last.w], last.key)
    /\ MapGet(chunks[last.w], last.key).objects # <<>>

\* An object as generated, less its id.
WithoutId(o) == [f \in DOMAIN o \ {"id"} |-> o[f]]
WithoutIds(objects) == [k \in 1..Len(objects) |-> WithoutId(objects[k])]
IdsOf(objects) == {objects[k].id : k \in 1..Len(objects)}

Regenerated ==
    {p \in (Worlds \X (1..Cardinality(ChunkCoords))) \X (Worlds \X (1..Cardinality(ChunkCoords))) :
        /\ p[1][1] < p[2][1]
        /\ p[1][2] <= Len(genLog[p[1][1]])
        /\ p[2][2] <= Len(genLog[p[2][1]])
        /\ seed[p[1][1]] = seed[p[2][1]]
        /\ genLog[p[1][1]][p[1][2]].key = genLog[p[2][1]][p[2][2]].key}

\* C3, as the specification states it: the coordinate generated again from
\* the same seed gives the same objects, ids included.
C3_SameIds ==
    \A p \in Regenerated :
        genLog[p[1][1]][p[1][2]].objects = genLog[p[2][1]][p[2][2]].objects

\* C3, amended: the coordinate generated again from the same seed gives a
\* chunk equal in every field but the ids of its objects, and no id of the
\* one generation is an id of the other.
C3_SameButIds ==
    \A p \in Regenerated :
        LET first == genLog[p[1][1]][p[1][2]]
            second == genLog[p[2][1]][p[2][2]]
            chunk1 == MapGet(chunks[p[1][1]], first.key)
            chunk2 == MapGet(chunks[p[2][1]], second.key)
        IN /\ chunk1.x = chunk2.x /\ chunk1.y = chunk2.y
           /\ chunk1.generated = chunk2.generated
           /\ chunk1.tiles = chunk2.tiles
           /\ Len(first.objects) = Len(second.objects)
           /\ \A k \in 1..Len(first.objects) :
                  WithoutId(first.objects[k]) = WithoutId(second.objects[k])
           /\ IdsOf(first.objects) \cap IdsOf(second.objects) = {}

\* A coordinate with objects has been generated by both worlds.
C3_Witness ==
    \E p \in Regenerated : genLog[p[1][1]][p[1][2]].objects # <<>>

\* ------------------------------------------------------------------------
\* Properties of harvesting
\* ------------------------------------------------------------------------
\* The objects a world generated, and the one of a given id.
WasGenerated(w, objectId) ==
    \E g \in 1..Len(genLog[w]) : objectId \in IdsOf(genLog[w][g].objects)
GeneratedObject(w, objectId) ==
    LET objects == Generated(genLog[w], 1)
    IN objects[CHOOSE k \in 1..Len(objects) : objects[k].id = objectId]
\* The objects of the world's chunks that bear the id now.
Bearing(w, objectId) ==
    {o \in UNION {{chunks[w][i].chunk.objects[k] :
                      k \in 1..Len(chunks[w][i].chunk.objects)} :
                  i \in 1..Len(chunks[w])} : o.id = objectId}
Renewable == {"flower", "mushroom", "bush"}

\* C4: a harvested tree or rock is gone for good: no chunk holds it, no
\* getObjectsNear around its place returns it, and harvestObject on its id
\* returns not-found.
C4_RemovedForGood ==
    /\ (last.op = "harvestObject" /\ last.ret # Null
            /\ GeneratedObject(last.w, last.id).type \in {"tree", "rock"})
           => <<last.w, last.id>> \in removed
    /\ \A r \in removed :
           /\ Bearing(r[1], r[2]) = {}
           /\ \A radius \in {1, 50} :
                  LET near == getObjectsNear(r[1], GeneratedObject(r[1], r[2]).x,
                                             GeneratedObject(r[1], r[2]).y, radius)
                  IN \A k \in 1..Len(near) : near[k].obj.id # r[2]
           /\ harvestObject(r[1], r[2]).ret = Null
    /\ (last.op = "getObjectsNear") =>
           \A k \in 1..Len(last.ret) : <<last.w, last.ret[k].obj.id>> \notin removed

\* A harvest of a tree that was removed before returned not-found.
C4_Witness ==
    /\ last.op = "harvestObject"
    /\ last.ret = Null
    /\ <<last.w, last.id>> \in removed
    /\ GeneratedObject(last.w, last.id).type = "tree"

\* C5: a harvested flower, mushroom or bush stays where it is under its id,
\* not harvestable from the harvest until its callback runs, which is not
\* before 30 s have passed; once the callback has run it is harvestable and
\* a harvest gives its resource again.
C5_Respawn ==
    /\ (last.op = "harvestObject" /\ last.ret # Null
            /\ GeneratedObject(last.w, last.id).type \in Renewable)
           => /\ Bearing(last.w, last.id)
                     = {[GeneratedObject(last.w, last.id) EXCEPT !.harvestable = FALSE]}
              /\ \E t \in 1..Len(timers) :
                     timers[t] = [w |-> last.w, id |-> last.id, due |-> now + 30000]
    /\ \A t \in 1..Len(timers) :
           /\ Bearing(timers[t].w, timers[t].id)
                  = {[GeneratedObject(timers[t].w, timers[t].id) EXCEPT !.harvestable = FALSE]}
           /\ harvestObject(timers[t].w, timers[t].id).ret = Null
    /\ last.op = "respawn"
           => /\ now >= last.due
              /\ Bearing(last.w, last.id) = {GeneratedObject(last.w, last.id)}
              /\ GeneratedObject(last.w, last.id).harvestable
              /\ harvestObject(last.w, last.id).ret
                     = [resource |-> GeneratedObject(last.w, last.id).resource,
                        amount |-> GeneratedObject(last.w, last.id).amount]

\* The callback of a harvested renewable object has run, 30 s after its
\* harvest.
C5_Witness ==
    /\ last.op = "respawn"
    /\ harvests > 0
    /\ now = 30000
    /\ GeneratedObject(last.w, last.id).type \in Renewable
    /\ \E o \in Bearing(last.w, last.id) : o.harvestable

\* C6: harvestObject on an id that no harvestable object of the world bears
\* (never generated, spliced out, awaiting its callback, or a cactus) returns
\* not-found and changes nothing; on any other id it returns the resource and
\* the amount of the object.
C6_HarvestResult ==
    /\ \A w \in Worlds : \A objectId \in HarvestIds(w) :
           IF \E o \in Bearing(w, objectId) : o.harvestable
           THEN \E o \in Bearing(w, objectId) :
                    harvestObject(w, objectId).ret
                        = [resource |-> o.resource, amount |-> o.amount]
           ELSE /\ harvestObject(w, objectId).ret = Null
                /\ harvestObject(w, objectId).chunks = chunks[w]
                /\ harvestObject(w, objectId).timers = timers
    /\ \A w \in Worlds :
           /\ Bearing(w, NoSuchId) = {}
           /\ \A objectId \in HarvestIds(w) : \A o \in Bearing(w, objectId) :
                  o.type = "cactus" => ~o.harvestable
    /\ \A r \in removed : \A o \in Bearing(r[1], r[2]) : ~o.harvestable
    /\ \A t \in 1..Len(timers) :
           \A o \in Bearing(timers[t].w, timers[t].id) : ~o.harvestable
    /\ (last.op = "harvestObject" /\ last.ret # Null)
           => last.ret = [resource |-> GeneratedObject(last.w, last.id).resource,
                          amount |-> GeneratedObject(last.w, last.id).amount]

\* A harvest of a cactus returned not-found.
C6_Witness ==
    /\ last.op = "harvestObject"
    /\ last.ret = Null
    /\ WasGenerated(last.w, last.id)
    /\ GeneratedObject(last.w, last.id).type = "cactus"

\* ------------------------------------------------------------------------
\* Properties of the spatial queries
\* ------------------------------------------------------------------------
QueryOps == {"getObjectsNear", "getNPCsNear", "getBuildingsNear"}

\* Four times the squared distance from the query point of the latest call to
\* the entry e of its result: to the centre of a building, to the position of
\* anything else.
FromQuery(e) ==
    IF last.op = "getBuildingsNear"
    THEN (2 * e.obj.x + e.obj.width - 2 * last.x) * (2 * e.obj.x + e.obj.width - 2 * last.x)
         + (2 * e.obj.y + e.obj.height - 2 * last.y) * (2 * e.obj.y + e.obj.height - 2 * last.y)
    ELSE 4 * ((e.obj.x - last.x) * (e.obj.x - last.x)
              + (e.obj.y - last.y) * (e.obj.y - last.y))

\* C7: each of the three queries returns entries that bear their Euclidean
\* distance from the query point, none farther than the radius, in ascending
\* order of distance.
C7_SortedWithinRadius ==
    last.op \in QueryOps =>
        \A k \in 1..Len(last.ret) :
            /\ last.ret[k].distance = FromQuery(last.ret[k])
            /\ FromQuery(last.ret[k]) <= 4 * last.radius * last.radius
            /\ k > 1 => FromQuery(last.ret[k - 1]) <= FromQuery(last.ret[k])

\* A getObjectsNear returned at least three objects, not all at one distance.
C7_Witness ==
    /\ last.op = "getObjectsNear"
    /\ Len(last.ret) >= 3
    /\ FromQuery(last.ret[1]) < FromQuery(last.ret[Len(last.ret)])

\* ------------------------------------------------------------------------
\* Properties of walkability
\* ------------------------------------------------------------------------
\* The geometry the properties speak of, for a building b and a point p.
Inside(b, p) ==
    b.x <= p[1] /\ p[1] <= b.x + b.width /\ b.y <= p[2] /\ p[2] <= b.y + b.height
StrictlyInside(b, p) ==
    b.x < p[1] /\ p[1] < b.x + b.width /\ b.y < p[2] /\ p[2] < b.y + b.height
\* Four times the squared distance from p to the middle of the bottom edge.
FromDoor(b, p) ==
    (2 * p[1] - 2 * b.x - b.width) * (2 * p[1] - 2 * b.x - b.width)
    + 4 * (p[2] - b.y - b.height) * (p[2] - b.y - b.height)
\* p is less than 20 px from the door centre along x and along y.
NearDoorOnBothAxes(b, p) ==
    /\ -40 < 2 * p[1] - 2 * b.x - b.width /\ 2 * p[1] - 2 * b.x - b.width < 40
    /\ -20 < p[2] - b.y - b.height /\ p[2] - b.y - b.height < 20
\* The buildings of world w, by index, whose footprint holds p.
Holding(w, p) == {i \in 1..Len(buildings[w]) : Inside(buildings[w][i], p)}
IsFirstHolding(w, i, p) == i \in Holding(w, p) /\ \A j \in Holding(w, p) : i <= j

\* C8, as the specification states it: every point within 20 px of the door
\* centre of a building with a door is walkable, whatever other buildings
\* there are.
C8_DoorAlwaysOpen ==
    \A w \in Worlds : \A i \in 1..Len(buildings[w]) : \A p \in WalkProbes :
        (buildings[w][i].door /\ FromDoor(buildings[w][i], p) <= 4 * 20 * 20)
            => isWalkable(w, p[1], p[2])

\* C8, amended: every point off water that is less than 20 px from the door
\* centre of a building with a door, along both axes, is walkable, provided
\* that the first building of the list whose footprint holds the point, if
\* there is one, is that building.
C8_DoorOpenUnlessCovered ==
    \A w \in Worlds : \A i \in 1..Len(buildings[w]) : \A p \in WalkProbes :
        (/\ buildings[w][i].door
         /\ NearDoorOnBothAxes(buildings[w][i], p)
         /\ getBiome(w, p[1], p[2]) # "water"
         /\ Holding(w, p) = {} \/ IsFirstHolding(w, i, p))
            => isWalkable(w, p[1], p[2])

\* isWalkable returned true for a point inside the footprint of a building
\* with a door, near that door.
C8_Witness ==
    /\ last.op = "isWalkable"
    /\ last.ret
    /\ \E i \in 1..Len(buildings[last.w]) :
           /\ buildings[last.w][i].door
           /\ IsFirstHolding(last.w, i, <<last.x, last.y>>)
           /\ NearDoorOnBothAxes(buildings[last.w][i], <<last.x, last.y>>)

\* C9, as the specification states it: isWalkable is false on water, inside
\* the footprint of a well, and strictly inside the footprint of a building
\* with a door at more than 20 px from its door centre.
C9_FootprintBlocks ==
    \A w \in Worlds : \A p \in WalkProbes :
        (\/ getBiome(w, p[1], p[2]) = "water"
         \/ \E i \in 1..Len(buildings[w]) :
                \/ ~buildings[w][i].door /\ Inside(buildings[w][i], p)
                \/ /\ buildings[w][i].door
                   /\ StrictlyInside(buildings[w][i], p)
                   /\ FromDoor(buildings[w][i], p) > 4 * 20 * 20)
            => ~isWalkable(w, p[1], p[2])

\* C9, amended: isWalkable is false on water; off water, at a point that
\* some footprint holds, it is false unless the first building of the list
\* whose footprint holds the point has a door and the point is less than
\* 20 px from that door's centre along both axes.
C9_FirstFootprintBlocks ==
    \A w \in Worlds : \A p \in WalkProbes :
        /\ getBiome(w, p[1], p[2]) = "water" => ~isWalkable(w, p[1], p[2])
        /\ \A i \in 1..Len(buildings[w]) :
               (getBiome(w, p[1], p[2]) # "water" /\ IsFirstHolding(w, i, p))
                   => (isWalkable(w, p[1], p[2])
                           <=> /\ buildings[w][i].door
                               /\ NearDoorOnBothAxes(buildings[w][i], p))

\* isWalkable returned false for a point off water whose first footprint is
\* that of a building with a door, away from the door.
C9_Witness ==
    /\ last.op = "isWalkable"
    /\ ~last.ret
    /\ getBiome(last.w, last.x, last.y) # "water"
    /\ \E i \in 1..Len(buildings[last.w]) :
           /\ buildings[last.w][i].door
           /\ IsFirstHolding(last.w, i, <<last.x, last.y>>)
           /\ ~NearDoorOnBothAxes(buildings[last.w][i], <<last.x, last.y>>)

\* ------------------------------------------------------------------------
\* Properties of the biome classifier
\* ------------------------------------------------------------------------
\* C10: getBiome's classifier gives every pair of an elevation and a moisture
\* exactly one of the seven biomes, by the first test that holds of: water
\* below -0.3, beach below -0.2, mountain above 0.6, rocky above 0.5, forest
\* for moisture above 0.3, desert for moisture below -0.2, plains otherwise.
C10_BiomeCascade ==
    last.op = "getBiome" =>
        LET e == last.elevation
            m == last.moisture
            mid == -2000 <= e /\ e <= 5000
        IN /\ last.ret \in Biomes
           /\ last.ret = "water" <=> e < -3000
           /\ last.ret = "beach" <=> (-3000 <= e /\ e < -2000)
           /\ last.ret = "mountain" <=> e > 6000
           /\ last.ret = "rocky" <=> (5000 < e /\ e <= 6000)
           /\ last.ret = "forest" <=> (mid /\ m > 3000)
           /\ last.ret = "desert" <=> (mid /\ m < -2000)
           /\ last.ret = "plains" <=> (mid /\ -2000 <= m /\ m <= 3000)

\* A pair above both elevation thresholds was classified.
C10_Witness ==
    /\ last.op = "getBiome"
    /\ last.elevation > 6000
    /\ last.ret = "mountain"

\* ------------------------------------------------------------------------
\* Properties of SeededRandom
\* ------------------------------------------------------------------------
\* C16: whatever the seed, next() returns a value in [0, 1), that is, leaves
\* a state from 0 up to but not including the modulus, and nextInt(min, max)
\* returns an integer from min to max.
C16_UnitInterval ==
    /\ last.op \in {"next", "nextInt"} => (0 <= last.state /\ last.state < RngM)
    /\ last.op = "nextInt" => (last.min <= last.ret /\ last.ret <= last.max)

\* ------------------------------------------------------------------------
\* Properties of the chunk seeds
\* ------------------------------------------------------------------------
\* C19, as the specification states it: two distinct chunk coordinates of a
\* world get different seeds of chunkRng.
C19_SeedsDiffer ==
    (last.op = "chunkRng" /\ last.first # last.second)
        => last.firstSeed # last.secondSeed

\* C19, amended: two distinct chunk coordinates of a world whose chunkY
\* differ by less than 1000 get different seeds of chunkRng.
C19_SeedsDifferNearby ==
    (/\ last.op = "chunkRng"
     /\ last.first # last.second
     /\ last.first[2] - last.second[2] < 1000
     /\ last.second[2] - last.first[2] < 1000)
        => last.firstSeed # last.secondSeed

\* The seeds of two chunks that differ in chunkX and in chunkY were compared.
C19_Witness ==
    /\ last.op = "chunkRng"
    /\ last.first[1] # last.second[1]
    /\ last.first[2] # last.second[2]
    /\ last.first[2] - last.second[2] < 1000
    /\ last.second[2] - last.first[2] < 1000
    /\ last.firstSeed # last.secondSeed

\* ------------------------------------------------------------------------
\* Properties of the placement tests
\* ------------------------------------------------------------------------
\* C20: the placement tests of a tile are independent, so that a plains tile
\* can receive a flower without a tree, as well as with one: once every
\* stream of TileStreams has been run on a plains tile, some run has placed
\* a flower and a tree and some run a flower and no tree.
C20_FlowerWithoutTree ==
    (last.op = "tiles" /\ last.biome = "plains" /\ last.tried = TileStreams)
        => /\ \E types \in last.placed : "flower" \in types /\ "tree" \in types
           /\ \E types \in last.placed : "flower" \in types /\ "tree" \notin types

\* ------------------------------------------------------------------------
\* Properties of the NPCs and the animals
\* ------------------------------------------------------------------------
\* The deltaTime of an update step, and whether e was closer than range to
\* the player the step was called with.
StepDelta == life'.elapsed - life.elapsed
StepNear(e, range) == Closer(e, life'.player[1], life'.player[2], range)

\* direction (in milliradians) points along (dx, dy), to a hundredth of a
\* radian.
Facing(direction, dx, dy) ==
    LET cs == CosSin(direction)
        across == (cs[1] * dy - cs[2] * dx) \div 100
    IN /\ cs[1] * dx + cs[2] * dy >= 0
       /\ across * across <= dx * dx + dy * dy

\* The directions and the timers Math.random() can give, over [0, 1).
RandomDirections == 0..(TWO_PI - 1)
WalkingTimers == 2000..5000
IdleTimers == 1000..5000

\* C11: an NPC is idle or walking; on an update with the player not within
\* 100 pixels its state changes exactly when the decremented stateTimer is
\* <= 0, idle to walking with a timer of 2 to 5 seconds and a direction, and
\* walking to idle with a timer of 1 to 5 seconds; otherwise the state is
\* kept and the timer decreases by deltaTime.
NpcTicks(npc, after, stateTimer) ==
    /\ npc.state \in {"idle", "walking"}
    /\ after.state \in {"idle", "walking"}
    /\ ~StepNear(npc, 100) =>
          IF stateTimer > 0
          THEN after.state = npc.state /\ after.stateTimer = stateTimer
          ELSE IF npc.state = "idle"
               THEN /\ after.state = "walking"
                    /\ after.stateTimer \in WalkingTimers
                    /\ after.direction \in -(TWO_PI \div 2)..(TWO_PI - 1)
               ELSE after.state = "idle" /\ after.stateTimer \in IdleTimers
C11_NpcStateTimer ==
    [][last'.op = "update" =>
          \A i \in 1..Len(npcs[last'.w]) :
              NpcTicks(npcs[last'.w][i], npcs'[last'.w][i],
                       npcs[last'.w][i].stateTimer - StepDelta)]_vars

\* An NPC that has walked away from home and become idle again, the player
\* never within 100 pixels.
C11_Witness ==
    \E w \in Worlds : \E i \in 1..Len(npcs[w]) :
        /\ life.changed /\ ~life.near
        /\ npcs[w][i].state = "idle"
        /\ npcs[w][i].stateTimer \in IdleTimers
        /\ <<npcs[w][i].x, npcs[w][i].y>> # <<npcs[w][i].homeX, npcs[w][i].homeY>>

\* C12 as stated: on an update with the player within 100 pixels of an NPC
\* the NPC ends idle, facing the player, where it was, and its stateTimer is
\* left as it was.
NpcFaced(npc, after) ==
    /\ after.state = "idle"
    /\ Facing(after.direction, life'.player[1] - npc.x, life'.player[2] - npc.y)
    /\ after.x = npc.x /\ after.y = npc.y
C12_TimerUntouched ==
    [][last'.op = "update" =>
          \A i \in 1..Len(npcs[last'.w]) :
              StepNear(npcs[last'.w][i], 100) =>
                  /\ NpcFaced(npcs[last'.w][i], npcs'[last'.w][i])
                  /\ npcs'[last'.w][i].stateTimer = npcs[last'.w][i].stateTimer]_vars

\* C12, amended: on an update with the player less than 100 pixels from an
\* NPC the NPC ends idle, facing the player, where it was; its stateTimer is
\* decremented by deltaTime as on any tick and, when that reaches <= 0, set
\* anew (2 to 5 seconds for an NPC that was idle, 1 to 5 for one that was
\* walking).
NpcTimed(npc, after, stateTimer) ==
    IF stateTimer > 0 THEN after.stateTimer = stateTimer
    ELSE IF npc.state = "idle" THEN after.stateTimer \in WalkingTimers
         ELSE after.stateTimer \in IdleTimers
C12_FacesPlayer ==
    [][last'.op = "update" =>
          \A i \in 1..Len(npcs[last'.w]) :
              StepNear(npcs[last'.w][i], 100) =>
                  /\ NpcFaced(npcs[last'.w][i], npcs'[last'.w][i])
                  /\ NpcTimed(npcs[last'.w][i], npcs'[last'.w][i],
                              npcs[last'.w][i].stateTimer - StepDelta)]_vars

\* An NPC that has walked away from home and stands idle, facing the player
\* less than 100 pixels away, with less on its timer than a change of state
\* ever sets.
C12_Witness ==
    \E w \in Worlds : \E i \in 1..Len(npcs[w]) :
        /\ life.near
        /\ Closer(npcs[w][i], life.player[1], life.player[2], 100)
        /\ npcs[w][i].state = "idle"
        /\ <<npcs[w][i].x, npcs[w][i].y>> # <<npcs[w][i].homeX, npcs[w][i].homeY>>
        /\ Facing(npcs[w][i].direction, life.player[1] - npcs[w][i].x,
                  life.player[2] - npcs[w][i].y)
        /\ npcs[w][i].stateTimer < 1000

\* C13 as stated: on an update with a non-fish animal less than 80 pixels
\* from the player the animal ends fleeing, with a stateTimer of 2 seconds
\* and a direction pointing away from the player; a fish is never fleeing.
Fleeing(animal, after) ==
    /\ after.state = "fleeing"
    /\ after.stateTimer = 2000
NeverFleeing(animal, after) ==
    animal.type = "fish" => animal.state # "fleeing" /\ after.state # "fleeing"
Away(animal, after) ==
    Facing(after.direction, animal.x - life'.player[1], animal.y - life'.player[2])
C13_FleesAway ==
    [][last'.op = "update" =>
          \A j \in 1..Len(animals[last'.w]) :
              /\ NeverFleeing(animals[last'.w][j], animals'[last'.w][j])
              /\ (animals[last'.w][j].type # "fish" /\ StepNear(animals[last'.w][j], 80))
                     => /\ Fleeing(animals[last'.w][j], animals'[last'.w][j])
                        /\ Away(animals[last'.w][j], animals'[last'.w][j])]_vars

\* C13, amended: such an animal ends fleeing with a stateTimer of 2 seconds;
\* it has moved, and its direction points away from the player, unless the
\* point the flight leads to in this tick is water: then it has stayed and
\* has a direction drawn at random.  A fish is never fleeing.
FlightLeadsTo(w, animal, cs, speed) ==
    getBiome(w, animal.x + Stride(cs[1], speed, StepDelta),
             animal.y + Stride(cs[2], speed, StepDelta))
FlightBiome(w, animal) ==
    FlightLeadsTo(w, animal,
                  CosSin(atan2(animal.y - life'.player[2], animal.x - life'.player[1])),
                  (animal.speed * 3) \div 2)
AwayUnlessWater(w, animal, after) ==
    IF FlightBiome(w, animal) = "water"
    THEN /\ after.x = animal.x /\ after.y = animal.y
         /\ after.direction \in RandomDirections
    ELSE /\ <<after.x, after.y>> # <<animal.x, animal.y>>
         /\ Away(animal, after)
C13_FleesAwayUnlessWater ==
    [][last'.op = "update" =>
          \A j \in 1..Len(animals[last'.w]) :
              /\ NeverFleeing(animals[last'.w][j], animals'[last'.w][j])
              /\ (animals[last'.w][j].type # "fish" /\ StepNear(animals[last'.w][j], 80))
                     => /\ Fleeing(animals[last'.w][j], animals'[last'.w][j])
                        /\ AwayUnlessWater(last'.w, animals[last'.w][j],
                                           animals'[last'.w][j])]_vars

\* A rabbit that has fled from the player to the water's edge and, still
\* less than 80 pixels from the player, has turned in a direction that does
\* not point away.
C13_Witness ==
    \E w \in Worlds : \E j \in 1..Len(animals[w]) :
        /\ animals[w][j].type # "fish"
        /\ animals[w][j].state = "fleeing"
        /\ animals[w][j].stateTimer = 2000
        /\ Closer(animals[w][j], life.player[1], life.player[2], 80)
        /\ ~Facing(animals[w][j].direction, animals[w][j].x - life.player[1],
                   animals[w][j].y - life.player[2])

\* C14: whatever Game.start spawns and however the world is updated, a fish
\* is at a point of water and any other animal at a point that is not water;
\* an animal that keeps moving goes to the point its direction leads to if
\* that point suits it, and otherwise stays where it is and takes a
\* direction drawn at random.
Suits(w, animal, x, y) == (animal.type = "fish") <=> (getBiome(w, x, y) = "water")
KeepsMoving(animal) ==
    /\ animal.state = "moving"
    /\ animal.stateTimer - StepDelta > 0
    /\ animal.type = "fish" \/ ~StepNear(animal, 80)
MovedOrTurned(w, animal, after, x, y) ==
    IF Suits(w, animal, x, y)
    THEN after.x = x /\ after.y = y /\ after.direction = animal.direction
    ELSE /\ after.x = animal.x /\ after.y = animal.y
         /\ after.direction \in RandomDirections
MovesWithin(w, animal, after, cs) ==
    KeepsMoving(animal) =>
        MovedOrTurned(w, animal, after,
                      animal.x + Stride(cs[1], animal.speed, StepDelta),
                      animal.y + Stride(cs[2], animal.speed, StepDelta))
C14_WaterAffinity ==
    [][\A w \in Worlds : \A j \in 1..Len(animals'[w]) :
          /\ Suits(w, animals'[w][j], animals'[w][j].x, animals'[w][j].y)
          /\ last'.op = "update" =>
                 MovesWithin(w, animals[w][j], animals'[w][j],
                             CosSin(animals[w][j].direction))]_vars

\* The fish, kept in the water by a rejected move: it is moving in the
\* direction such a move has drawn.
C14_Witness ==
    \E w \in Worlds : \E j \in 1..Len(animals[w]) :
        /\ animals[w][j].type = "fish"
        /\ animals[w][j].state = "moving"
        /\ animals[w][j].direction \notin {(r.direction * TWO_PI) \div 1000 : r \in Randoms}
        /\ animals[w][j].direction \in {(r.turn * TWO_PI) \div 1000 : r \in Randoms}
        /\ getBiome(w, animals[w][j].x, animals[w][j].y) = "water"

\* C15: an NPC spawned idle and updated with frames of at most 100 ms, the
\* player never within 100 pixels, has changed state by the time 10
\* simulated seconds have passed.
C15_ChangesIn10s ==
    (last.op = "update" /\ ~life.near /\ life.elapsed >= 10000) => life.changed

\* 10 seconds have passed for an NPC that was spawned with more than 4
\* seconds on its timer; the player has never been near and the NPC has
\* changed state.
C15_Witness ==
    /\ last.op = "update" /\ ~life.near /\ life.elapsed >= 10000 /\ life.changed
    /\ \E w \in Worlds : \E i \in 1..Len(npcs[w]) : npcs[w][i].id = <<0, 1>>

\* ------------------------------------------------------------------------
\* Properties of the game loop
\* ------------------------------------------------------------------------
\* C17: the deltaTime a frame hands to Game.update, and so to World.update,
\* is at most 0.1 seconds however long the host waited, and the frame makes
\* exactly one update, before its render.
OneUpdateThenRender(calls) ==
    /\ Cardinality({k \in 1..Len(calls) : calls[k] = "update"}) = 1
    /\ Cardinality({k \in 1..Len(calls) : calls[k] = "render"}) = 1
    /\ \A k \in 1..Len(calls) : \A r \in 1..Len(calls) :
          (calls[k] = "update" /\ calls[r] = "render") => k < r
C17_FrameTimeClamped ==
    [][last'.op = "gameLoop" =>
          /\ last'.deltaTime <= 100
          /\ life'.elapsed - life.elapsed = last'.deltaTime
          /\ game'.gameTime = GameTime(game.gameTime, last'.deltaTime)
          /\ game'.updates = game.updates + 1
          /\ game'.renders = game.renders + 1
          /\ OneUpdateThenRender(last'.calls)]_vars

\* A frame after a stall of the host: more than 100 ms since the frame
\* before, and 100 ms handed to the update.
C17_Witness ==
    /\ last.op = "gameLoop"
    /\ game.updates >= 2 /\ game.renders = game.updates
    /\ last.currentTime > life.elapsed + 1000
    /\ last.deltaTime = 100


\* C18: for every sample point and every octave count from 1 to 8, noise2D
\* and fbm return a value within [-1.01, 1.01] (in units of 1 / FP); the
\* bound of fbm is the same for 8 octaves as for 1.
NoiseBound == FP + FP \div 100
C18_NoiseBounds ==
    last.op \in {"noise2D", "fbm"} => last.ret \in (-NoiseBound)..NoiseBound

\* fbm with 8 octaves has returned a value beyond 0.45 in magnitude.
C18_Witness ==
    /\ last.op = "fbm"
    /\ last.octaves = 8
    /\ last.ret > 4500


\* What a tile of each biome may spawn: trees by their treeType.
Spawns(biome) ==
    CASE biome = "forest" -> {"pine", "mushroom", "bush"}
      [] biome = "plains" -> {"oak", "flower", "bush", "building"}
      [] biome \in {"rocky", "mountain"} -> {"rock"}
      [] biome = "desert" -> {"cactus"}
      [] OTHER -> {}
Permits(biome, kind) ==
    IF kind = "tree" THEN Spawns(biome) \cap {"pine", "oak"} # {}
    ELSE kind \in Spawns(biome)
KindOf(o) == IF o.type = "tree" THEN o.treeType ELSE o.type
\* The biome of the tile of chunk ch that holds the point (x, y).
TileBiome(ch, x, y) ==
    ch.tiles[(y - ch.y * ChunkPixels) \div TILE_SIZE]
            [(x - ch.x * ChunkPixels) \div TILE_SIZE].biome
TileIndexes == 0..(CHUNK_SIZE - 1)

\* C21: in every generated chunk the tile grid is CHUNK_SIZE x CHUNK_SIZE
\* and every object and building is permitted by the biome of the tile that
\* spawned it (the tile its position lies in): nothing on water and beach,
\* pines on forest, oaks on plains, rocks on rocky or mountain, flowers and
\* buildings on plains, mushrooms on forest, bushes on forest or plains,
\* cacti on desert.  The same holds of every run of the tests of one tile.
C21_BiomePermits ==
    /\ \A w \in Worlds : \A i \in 1..Len(chunks[w]) :
           LET ch == chunks[w][i].chunk
           IN /\ DOMAIN ch.tiles = TileIndexes
              /\ \A ty \in TileIndexes : DOMAIN ch.tiles[ty] = TileIndexes
              /\ \A k \in 1..Len(ch.objects) :
                     Permits(TileBiome(ch, ch.objects[k].x, ch.objects[k].y),
                             KindOf(ch.objects[k]))
    /\ \A w \in Worlds : \A i \in 1..Len(genLog[w]) :
           \A k \in 1..Len(genLog[w][i].buildings) :
               Permits(TileBiome(MapGet(chunks[w], genLog[w][i].key),
                                 genLog[w][i].buildings[k].x,
                                 genLog[w][i].buildings[k].y), "building")
    /\ last.op = "tiles" =>
           \A types \in last.placed : \A t \in types : Permits(last.biome, t)

\* A chunk holding an oak, a mushroom and a cactus has been generated
\* together with a building.
C21_Witness ==
    \E w \in Worlds : \E i \in 1..Len(chunks[w]) :
        /\ {"oak", "mushroom", "cactus"} \subseteq
               {KindOf(chunks[w][i].chunk.objects[k]) :
                    k \in 1..Len(chunks[w][i].chunk.objects)}
        /\ \E j \in 1..Len(genLog[w]) :
               /\ genLog[w][j].key = chunks[w][i].key
               /\ genLog[w][j].buildings # <<>>


\* The directions a walking NPC can have on the step of an update, before
\* the step: its own when it was walking and its timer has not run out, else
\* the one drawn on becoming walking.
StepDirections(npc) ==
    IF npc.state = "walking" /\ npc.stateTimer - StepDelta > 0
    THEN {npc.direction}
    ELSE {(r.direction * TWO_PI) \div 1000 : r \in Randoms}
\* The destination of the step of npc along direction.
StepTo(npc, direction) ==
    [x |-> npc.x + Stride(CosSin(direction)[1], 30, StepDelta),
     y |-> npc.y + Stride(CosSin(direction)[2], 30, StepDelta)]
\* after is npc having taken the step when the destination is less than 150
\* pixels from home and walkable, and else npc where it was, turned to home.
SteppedOrTurned(w, npc, after, direction, to) ==
    IF Closer(to, npc.homeX, npc.homeY, 150) /\ isWalkable(w, to.x, to.y)
    THEN /\ <<after.x, after.y>> = <<to.x, to.y>>
         /\ after.direction = direction
    ELSE /\ <<after.x, after.y>> = <<npc.x, npc.y>>
         /\ after.direction = atan2(npc.homeY - npc.y, npc.homeX - npc.x)
Tethered(npc) == Closer(npc, npc.homeX, npc.homeY, 150)

\* C22: every NPC is always less than 150 pixels from its home, which never
\* changes; on an update an NPC that ends walking has taken its step when
\* the destination is less than 150 pixels from home and walkable, and has
\* otherwise stayed where it was and turned to face home; an NPC that ends
\* idle has not moved.
C22_HomeTether ==
    [][/\ \A w \in Worlds : \A i \in 1..Len(npcs'[w]) : Tethered(npcs'[w][i])
       /\ last'.op = "update" =>
              \A i \in 1..Len(npcs[last'.w]) :
                  LET npc == npcs[last'.w][i]
                      after == npcs'[last'.w][i]
                  IN /\ <<after.homeX, after.homeY>> = <<npc.homeX, npc.homeY>>
                     /\ IF after.state = "walking"
                        THEN \E d \in StepDirections(npc) :
                                 SteppedOrTurned(last'.w, npc, after, d,
                                                 StepTo(npc, d))
                        ELSE <<after.x, after.y>> = <<npc.x, npc.y>>]_vars

\* A walking NPC 148 pixels or more from home that faces home: its step
\* away from home was not taken.
C22_Witness ==
    \E w \in Worlds : \E i \in 1..Len(npcs[w]) :
        /\ last.op = "update"
        /\ npcs[w][i].state = "walking"
        /\ ~Closer(npcs[w][i], npcs[w][i].homeX, npcs[w][i].homeY, 148)
        /\ npcs[w][i].direction =
               atan2(npcs[w][i].homeY - npcs[w][i].y,
                     npcs[w][i].homeX - npcs[w][i].x)


\* The timers Math.random() can give an animal, over [0, 1).
MovingTimers == 1000..3000
RestingTimers == 2000..5000

\* C23: on an update a non-fish animal less than 80 pixels from the player
\* ends fleeing with a timer of 2 seconds; any other animal keeps its state
\* and has its timer decreased by deltaTime while the decreased timer is
\* above 0, and when it is not, idle becomes moving with a timer of 1 to 3
\* seconds and a direction drawn at random, while moving and fleeing become
\* idle with a timer of 2 to 5 seconds.  A fleeing animal's timer is at most
\* 2 seconds, so fleeing ends 2 seconds of updates after the last one in
\* range.
AnimalTicks(animal, after, stateTimer) ==
    IF animal.type # "fish" /\ StepNear(animal, 80)
    THEN after.state = "fleeing" /\ after.stateTimer = 2000
    ELSE IF stateTimer > 0
    THEN after.state = animal.state /\ after.stateTimer = stateTimer
    ELSE IF animal.state = "idle"
    THEN /\ after.state = "moving"
         /\ after.stateTimer \in MovingTimers
         /\ after.direction \in RandomDirections
    ELSE after.state = "idle" /\ after.stateTimer \in RestingTimers
C23_FleeingUntilExpiry ==
    [][/\ \A w \in Worlds : \A j \in 1..Len(animals'[w]) :
              /\ animals'[w][j].state \in {"idle", "moving", "fleeing"}
              /\ animals'[w][j].state = "fleeing" =>
                     animals'[w][j].stateTimer \in 1..2000
       /\ last'.op = "update" =>
              \A j \in 1..Len(animals[last'.w]) :
                  AnimalTicks(animals[last'.w][j], animals'[last'.w][j],
                              animals[last'.w][j].stateTimer - StepDelta)]_vars

\* A rabbit the player has come to and left again: 1.9 seconds of updates
\* after the last one in range it is still fleeing, with 100 ms to go.
C23_Witness ==
    \E w \in Worlds : \E j \in 1..Len(animals[w]) :
        /\ animals[w][j].type # "fish"
        /\ life.moves = MaxVisits
        /\ ~Closer(animals[w][j], life.player[1], life.player[2], 80)
        /\ animals[w][j].state = "fleeing"
        /\ animals[w][j].stateTimer = 100


\* The pending callbacks for the object objectId of world w.
Pending(w, objectId) ==
    {t \in 1..Len(timers) : timers[t].w = w /\ timers[t].id = objectId}
\* m with the objects bearing objectId made harvestable and nothing else
\* changed.
Restored(m, after, objectId) ==
    /\ Len(after) = Len(m)
    /\ \A i \in 1..Len(m) :
           /\ after[i].key = m[i].key
           /\ Len(after[i].chunk.objects) = Len(m[i].chunk.objects)
           /\ [after[i].chunk EXCEPT !.objects = <<>>]
                  = [m[i].chunk EXCEPT !.objects = <<>>]
           /\ \A k \in 1..Len(m[i].chunk.objects) :
                  after[i].chunk.objects[k] =
                      IF m[i].chunk.objects[k].id = objectId
                      THEN [m[i].chunk.objects[k] EXCEPT !.harvestable = TRUE]
                      ELSE m[i].chunk.objects[k]

\* C24: whatever the order of harvests, callbacks, clock ticks, chunk
\* generations and updates, an object has at most one pending callback, and
\* it is then a flower, mushroom or bush of a chunk that is not harvestable;
\* a harvest succeeds only on an object without a pending callback; a
\* callback makes the object it was scheduled for harvestable and changes
\* nothing else, and no other step makes an object harvestable; no cactus
\* is ever harvestable.
C24_OneCallback ==
    [][/\ \A t \in 1..Len(timers') :
              /\ Cardinality({u \in 1..Len(timers') :
                                  /\ timers'[u].w = timers'[t].w
                                  /\ timers'[u].id = timers'[t].id}) = 1
              /\ \E i \in 1..Len(chunks'[timers'[t].w]) :
                     \E k \in 1..Len(chunks'[timers'[t].w][i].chunk.objects) :
                         LET o == chunks'[timers'[t].w][i].chunk.objects[k]
                         IN /\ o.id = timers'[t].id
                            /\ o.type \in Renewable
                            /\ ~o.harvestable
       /\ \A w \in Worlds : \A i \in 1..Len(chunks'[w]) :
              \A k \in 1..Len(chunks'[w][i].chunk.objects) :
                  chunks'[w][i].chunk.objects[k].type = "cactus"
                      => ~chunks'[w][i].chunk.objects[k].harvestable
       /\ (last'.op = "harvestObject" /\ last'.ret # Null)
              => Pending(last'.w, last'.id) = {}
       /\ last'.op = "respawn"
              => /\ Pending(last'.w, last'.id) # {}
                 /\ Restored(chunks[last'.w], chunks'[last'.w], last'.id)
                 /\ \A w \in Worlds \ {last'.w} : chunks'[w] = chunks[w]
       /\ last'.op \notin {"respawn", "getChunk"}
              => \A w \in Worlds : \A i \in 1..Len(chunks[w]) :
                     \A k \in 1..Len(chunks'[w][i].chunk.objects) :
                         chunks'[w][i].chunk.objects[k].harvestable
                             => \E o \in Bearing(w, chunks'[w][i].chunk.objects[k].id) :
                                    o.harvestable]_vars

\* Two callbacks are pending, for two objects, the world has been updated,
\* and the latest harvest, of an object awaiting its callback, returned
\* not-found.
C24_Witness ==
    /\ Len(timers) = 2
    /\ timers[1].id # timers[2].id
    /\ life.elapsed > 0
    /\ last.op = "harvestObject"
    /\ last.ret = Null
    /\ Pending(last.w, last.id) # {}


\* Where the entities of world w are held: the objects of its chunks, its
\* buildings, its NPCs and its animals; and the id of the entity held there.
ObjectHolders(w) ==
    UNION {{<<w, "object", i, k>> : k \in 1..Len(chunks[w][i].chunk.objects)} :
               i \in 1..Len(chunks[w])}
Holders(w) ==
    ObjectHolders(w)
    \cup {<<w, "building", 0, k>> : k \in 1..Len(buildings[w])}
    \cup {<<w, "npc", 0, k>> : k \in 1..Len(npcs[w])}
    \cup {<<w, "animal", 0, k>> : k \in 1..Len(animals[w])}
IdHeld(h) ==
    CASE h[2] = "object" -> chunks[h[1]][h[3]].chunk.objects[h[4]].id
      [] h[2] = "building" -> buildings[h[1]][h[4]].id
      [] h[2] = "npc" -> npcs[h[1]][h[4]].id
      [] OTHER -> animals[h[1]][h[4]].id
AllHolders == UNION {Holders(w) : w \in Worlds}

\* C25: no two entities among the objects of all chunks, the buildings, the
\* NPCs and the animals share an id: there are as many ids as entities, so
\* that no id occurs twice in a chunk or in two chunks.
C25_UniqueIds ==
    Cardinality({IdHeld(h) : h \in AllHolders}) = Cardinality(AllHolders)

\* A started world with NPCs and animals, both chunks generated, buildings
\* among them, and an object harvested.
C25_Witness ==
    \E w \in Worlds :
        /\ Len(chunks[w]) = 2
        /\ buildings[w] # <<>>
        /\ npcs[w] # <<>>
        /\ animals[w] # <<>>
        /\ harvests > 0


\* C26: a getObjectsNear with a radius of at most ChunkPixels returns every
\* object of every generated chunk that is within the radius of the query
\* point, once.
C26_MissesNothing ==
    (last.op = "getObjectsNear" /\ last.radius <= ChunkPixels) =>
        \A i \in 1..Len(chunks[last.w]) :
            \A k \in 1..Len(chunks[last.w][i].chunk.objects) :
                LET o == chunks[last.w][i].chunk.objects[k]
                IN WithinRadius(hypot(2 * (o.x - last.x), 2 * (o.y - last.y)),
                                last.radius)
                       => Cardinality({n \in 1..Len(last.ret) :
                                          last.ret[n].obj.id = o.id}) = 1

\* ------------------------------------------------------------------------
\* C27: in every reachable state of a started game (the NPCs spawned, then
\* chunks generated, then any number of ticks), every NPC stands at a point
\* for which isWalkable is true.
\* ------------------------------------------------------------------------
C27_NpcsWalkable ==
    \A w \in Worlds :
        started[w] =>
            \A i \in 1..Len(npcs[w]) : isWalkable(w, npcs[w][i].x, npcs[w][i].y)

\* ------------------------------------------------------------------------
\* C28: addItem(itemId, amount) with amount >= 1 is all-or-nothing: either it
\* returns true, countItem(itemId) has grown by exactly amount and no slot
\* holds more than the item's maxStack (one per slot for an item that is not
\* stackable), or it returns false and the quickbar and the inventory are as
\* they were before the call.
\* ------------------------------------------------------------------------
SlotsOf(p) == {p.quickbar[i] : i \in 1..Len(p.quickbar)}
                  \cup {p.inventory[i] : i \in 1..Len(p.inventory)}
WithinStack(p, itemId) ==
    \A slot \in SlotsOf(p) :
        slot # Null /\ slot.id = itemId =>
            slot.count <= IF ITEMS[itemId].stackable THEN ITEMS[itemId].maxStack ELSE 1

C28_AllOrNothing ==
    [][last'.op = "addItem" /\ last'.amount >= 1 =>
          IF last'.ret
          THEN /\ countItem(game'.player, last'.itemId)
                     = countItem(game.player, last'.itemId) + last'.amount
               /\ WithinStack(game'.player, last'.itemId)
          ELSE game'.player = game.player]_vars

\* ------------------------------------------------------------------------
\* C29: crafting is atomic: when canCraftRecipe holds, craftRecipe lowers the
\* count of every material by the recipe's amount and raises the count of
\* the result by resultCount; when it does not hold, the quickbar and the
\* inventory are unchanged.
\* ------------------------------------------------------------------------
C29_CraftAtomic ==
    [][last'.op = "craftRecipe" =>
          LET recipe == RECIPES[last'.recipe]
          IN IF canCraftRecipe(recipe, game.player)
             THEN /\ \A k \in 1..Len(recipe.materials) :
                        countItem(game'.player, recipe.materials[k][1])
                            = countItem(game.player, recipe.materials[k][1])
                                  - recipe.materials[k][2]
                  /\ countItem(game'.player, recipe.result)
                        = countItem(game.player, recipe.result) + recipe.resultCount
             ELSE game'.player = game.player]_vars

\* ------------------------------------------------------------------------
\* C30: the three queries are read-only.  A query leaves the chunk map (hence
\* every object and the set of generated chunks), the building list, the
\* NPCs, the animals, the id counter and the pending respawns as they were,
\* and getObjectsNear returns only objects of chunks that are in the map; a
\* write to a returned record changes no chunk, building, NPC or animal.
\* ------------------------------------------------------------------------
StoredObjects(w) ==
    UNION {{chunks[w][i].chunk.objects[j] : j \in 1..Len(chunks[w][i].chunk.objects)} :
              i \in 1..Len(chunks[w])}

====
